---- MODULE Spec2Model ----
(***************************************************************************)
(* go-cfgstore: directory resolution, single-store file operations and the *)
(* multi-store load-and-merge (LoadRootConfig / mergeRootConfigs).         *)
(*                                                                         *)
(* Paths are sequences of path segments; the empty sequence is the empty   *)
(* string "".  An error is the chain of sentinels it wraps (errors.Is is   *)
(* membership in the chain); the nil error is the empty chain.             *)
(***************************************************************************)
EXTENDS Integers, Sequences, FiniteSets, TLC

\* ------------------------------------------------------------------------
\* DirType (dir_type.go, iota)
\* ------------------------------------------------------------------------
UnspecifiedConfigDirType == 0
AppConfigDirType == 1
CLIConfigDirType == 2
ProjectConfigDirType == 3

DotConfigPathSegment == ".config"

VARIABLES
    goos,           \* runtime.GOOS of the build
    normalizeMode,  \* which Normalize the configuration type implements
    mergeMode,      \* which Merge the configuration type implements
    fsys,           \* the file system
    DirTypes,       \* ConfigStores.DirTypes
    StoreMap,       \* ConfigStores.StoreMap
    pc,             \* position inside LoadRootConfig / mergeRootConfigs
    args,           \* RootConfigArgs of the running LoadRootConfig
    pending,        \* stores the gather loop has not visited yet
    rcMap,          \* rcMap: the value each store contributed (Nil = none)
    errs,           \* errs: the per-store failures collected so far
    acc,            \* mergeRootConfigs locals: rc, dirType, cnt, loop index
    ret,            \* what the last finished operation returned
    log,            \* the Merge calls of the running LoadRootConfig, in order
                    \* (one store on its own: its last save, or its calls)
    outcome,        \* how the gather loop left each store it visited
    ops,            \* number of top-level operations finished
    logger,         \* the package-level logger: "nil" until SetLogger
    openFiles       \* the files a handle is still open on

vars == <<goos, normalizeMode, mergeMode, fsys, DirTypes, StoreMap, pc, args,
          pending, rcMap, errs, acc, ret, log, outcome, ops, logger, openFiles>>

\* The one element of a singleton set.  Bind({ F(x) : x \in {e} }) is F(e)
\* with e evaluated once, however often F uses it.
Bind(S) == CHOOSE x \in S : TRUE

\* ------------------------------------------------------------------------
\* Errors
\* ------------------------------------------------------------------------
NoErr == <<>>

\* errors.Is(err, sentinel)
Is(err, sentinel) == \E i \in 1..Len(err) : err[i] = sentinel

\* NewErr(sentinels..., cause): the sentinels wrap the cause
NewErr(sentinels, cause) == sentinels \o cause

\* WithErr(err, sentinels...): err additionally identifiable as the sentinels
WithErr(err, sentinels) == err \o sentinels

RECURSIVE FlattenErrs(_)
FlattenErrs(es) ==
    IF es = <<>> THEN <<>> ELSE Head(es).chain \o FlattenErrs(Tail(es))

\* the errors of the list dropped
CombineErrsDropped(es) == NoErr

\* CombineErrs(errs): nil when the list is empty, else one error that is
\* identifiable as every entry
CombineErrs(es) ==
    IF es = <<>> THEN NoErr ELSE <<"CombinedErrs">> \o FlattenErrs(es)

\* ------------------------------------------------------------------------
\* Paths
\* ------------------------------------------------------------------------
EmptyPath == <<>>

\* dt.DirPathJoin(dir, segment): filepath.Join drops empty elements
DirPathJoin(dir, seg) == IF seg = "" THEN dir ELSE Append(dir, seg)

\* dt.FilepathJoin(dir, relFilepath)
FilepathJoin(dir, rel) == dir \o rel

\* the project kind's directory named like the other kinds'
DotSlugPlain(slug) == slug

\* "." + configSlug of the project kind
DotSlug(slug) == IF slug = "acme" THEN ".acme" ELSE "."

\* fp.Dir()
PathDir(p) == IF p = <<>> THEN <<>> ELSE SubSeq(p, 1, Len(p) - 1)

\* relFilepath.ValidPath(): a non-empty relative path without "." / ".."
ValidPath(rel) ==
    /\ rel # <<>>
    /\ \A i \in 1..Len(rel) : rel[i] \notin {"", ".", ".."}

Prefixes(p) == { SubSeq(p, 1, n) : n \in 1..Len(p) }

ProperPrefixes(p) == { SubSeq(p, 1, n) : n \in 1..(Len(p) - 1) }

\* ------------------------------------------------------------------------
\* The file system: a function from existing paths to nodes
\* ------------------------------------------------------------------------
DirNode == [isDir |-> TRUE, data |-> <<>>]

FileNode(data) == [isDir |-> FALSE, data |-> data]

IsDirAt(fsx, p) == p = <<>> \/ (p \in DOMAIN fsx /\ fsx[p].isDir)

IsFileAt(fsx, p) == p \in DOMAIN fsx /\ ~fsx[p].isDir

\* os.Stat through a rooted fs.FS: nil error iff the path names a node
Stat(fsx, p) ==
    IF p \in DOMAIN fsx THEN NoErr
    ELSE IF \E q \in ProperPrefixes(p) : IsFileAt(fsx, q)
         THEN <<"stat", "ENOTDIR">>
         ELSE <<"stat", "ENOENT">>

\* fs.ReadFile
ReadFile(fsx, p) ==
    IF p \notin DOMAIN fsx
    THEN [data |-> <<>>,
          err |-> IF \E q \in ProperPrefixes(p) : IsFileAt(fsx, q)
                  THEN <<"open", "ENOTDIR">> ELSE <<"open", "ENOENT">>]
    ELSE IF fsx[p].isDir
         THEN [data |-> <<>>, err |-> <<"read", "EISDIR">>]
         ELSE [data |-> fsx[p].data, err |-> NoErr]

\* dir.MkdirAll(0755)
MkdirAll(fsx, p) ==
    IF \E q \in Prefixes(p) : IsFileAt(fsx, q)
    THEN [fsx |-> fsx, err |-> <<"mkdir", "ENOTDIR">>]
    ELSE [fsx |-> [q \in (DOMAIN fsx) \cup Prefixes(p) |->
                        IF q \in DOMAIN fsx THEN fsx[q] ELSE DirNode],
          err |-> NoErr]

\* the file opened for appending instead of truncated
WriteFileAppending(fsx, p, data) ==
    IF p = <<>> \/ ~IsDirAt(fsx, PathDir(p))
    THEN [fsx |-> fsx, err |-> <<"open", "ENOENT">>]
    ELSE IF IsDirAt(fsx, p)
         THEN [fsx |-> fsx, err |-> <<"open", "EISDIR">>]
         ELSE [fsx |-> [q \in (DOMAIN fsx) \cup {p} |->
                             IF q # p THEN fsx[q]
                             ELSE IF p \in DOMAIN fsx
                                  THEN FileNode(fsx[p].data \o data)
                                  ELSE FileNode(data)],
               err |-> NoErr]

\* dt.CreateFile(fullPath) followed by file.Write(data): create or truncate
WriteFile(fsx, p, data) ==
    IF p = <<>> \/ ~IsDirAt(fsx, PathDir(p))
    THEN [fsx |-> fsx, err |-> <<"open", "ENOENT">>]
    ELSE IF IsDirAt(fsx, p)
         THEN [fsx |-> fsx, err |-> <<"open", "EISDIR">>]
         ELSE [fsx |-> [q \in (DOMAIN fsx) \cup {p} |->
                             IF q = p THEN FileNode(data) ELSE fsx[q]],
               err |-> NoErr]

\* ------------------------------------------------------------------------
\* The configuration value type (user supplied): a struct of two fields,
\* its JSON encoding, and its Normalize and Merge methods
\* ------------------------------------------------------------------------
Themes == {"", "light", "dark"}

ConfigValues == [Theme : Themes, Debug : BOOLEAN]

\* new(RC): the zero value
ZeroValue == [Theme |-> "", Debug |-> FALSE]

\* dtx.IsZero(rc) of a non-nil pointer: the pointee is the zero value
IsZero(v) == v = ZeroValue

BoolToken(b) == IF b THEN "true" ELSE "false"

\* jsonv2.Marshal: the token stream of {"Theme":..., "Debug":...}
Marshal(v) == <<"{", "Theme", v.Theme, "Debug", BoolToken(v.Debug), "}">>

RECURSIVE UnmarshalMembers(_, _)
UnmarshalMembers(toks, into) ==
    IF toks = <<>> THEN [val |-> into, ok |-> TRUE]
    ELSE IF Len(toks) < 2 THEN [val |-> into, ok |-> FALSE]
    ELSE LET key == toks[1]
             val == toks[2]
             rest == SubSeq(toks, 3, Len(toks))
         IN  CASE key = "Theme" ->
                    UnmarshalMembers(rest, [into EXCEPT !.Theme = val])
               [] key = "Debug" ->
                    IF val \in {"true", "false"}
                    THEN UnmarshalMembers(rest, [into EXCEPT !.Debug = (val = "true")])
                    ELSE [val |-> into, ok |-> FALSE]
               [] OTHER -> UnmarshalMembers(rest, into)

\* jsonv2.Unmarshal(data, into): members present overwrite the fields of into,
\* unknown members are skipped, anything that is not an object is an error
Unmarshal(data, into) ==
    IF Len(data) < 2 \/ data[1] # "{" \/ data[Len(data)] # "}"
    THEN [val |-> into, err |-> <<"SyntacticError">>]
    ELSE Bind({ [val |-> r.val,
                 err |-> IF r.ok THEN NoErr ELSE <<"SemanticError">>] :
                  r \in {UnmarshalMembers(SubSeq(data, 2, Len(data) - 1), into)} })

NormalizeModes == {"noop", "defaults", "required"}

\* rc.Normalize(NormalizeArgs): "defaults" fills the missing theme,
\* "required" rejects a value without a theme, "noop" accepts everything
Normalize(v) ==
    CASE normalizeMode = "defaults" ->
            [val |-> IF v.Theme = "" THEN [v EXCEPT !.Theme = "light"] ELSE v,
             err |-> NoErr]
      [] normalizeMode = "required" ->
            [val |-> v,
             err |-> IF v.Theme = "" THEN <<"ErrInvalidConfig">> ELSE NoErr]
      [] OTHER -> [val |-> v, err |-> NoErr]

MergeModes == {"new", "inplace"}

\* the merge rule: a non-zero field of the receiver wins, else inherit
MergedValue(recv, other) ==
    [Theme |-> IF recv.Theme # "" THEN recv.Theme ELSE other.Theme,
     Debug |-> IF recv.Debug THEN TRUE ELSE other.Debug]

\* recv.Merge(other): what is returned, and what the receiver holds after:
\* "new" returns a fresh value and leaves the receiver alone, "inplace"
\* updates the receiver and returns it
Merge(recv, other) ==
    [returned |-> MergedValue(recv, other),
     receiver |-> IF mergeMode = "inplace" THEN MergedValue(recv, other) ELSE recv]

\* ------------------------------------------------------------------------
\* DirsProvider: each DirFunc is modelled by what a call of it returns
\* ------------------------------------------------------------------------
DirOk(dir) == [dir |-> dir, err |-> NoErr]

DirFail(cause) == [dir |-> EmptyPath, err |-> cause]

\* a DirFunc field holding a plain function
Func(r) == [method |-> FALSE, dir |-> r.dir, err |-> r.err]

\* the CLIConfigDirFunc field holding the bound method dp.CLIConfigDirType
BoundMethod == [method |-> TRUE, dir |-> EmptyPath, err |-> NoErr]

\* the nil *DirsProvider
NilProvider ==
    [isNil |-> TRUE,
     UserHomeDirFunc |-> DirFail(NoErr), UserConfigDirFunc |-> DirFail(NoErr),
     ProjectDirFunc |-> DirFail(NoErr), CLIConfigDirFunc |-> BoundMethod]

\* dt.UserHomeDir / dt.UserConfigDir / dt.Getwd of the machine
OSUserHomeDir == DirOk(<<"home">>)

OSUserConfigDir ==
    IF goos = "linux" THEN DirOk(<<"home", ".config">>)
    ELSE DirOk(<<"home", "Library">>)

OSGetwd == DirOk(<<"work">>)

DefaultDirsProvider ==
    [isNil |-> FALSE,
     UserHomeDirFunc |-> OSUserHomeDir,
     UserConfigDirFunc |-> OSUserConfigDir,
     ProjectDirFunc |-> OSGetwd,
     CLIConfigDirFunc |-> BoundMethod]

\* cstest.getTestUserHomeDir(username)
getTestUserHomeDir(userOk) ==
    IF userOk THEN DirOk(<<"home">>)
    ELSE DirFail(<<"ErrUsernameRequired", "ErrFailedGettingUserHomeDir">>)

\* cstest.getTestUserConfigDir(username)
getTestUserConfigDir(userOk) ==
    LET h == getTestUserHomeDir(userOk)
    IN  IF h.err # NoErr
        THEN DirFail(WithErr(h.err, <<"ErrFailedGettingUserConfigDir">>))
        ELSE IF goos = "linux"
             THEN DirOk(DirPathJoin(h.dir, DotConfigPathSegment))
             ELSE DirOk(DirPathJoin(h.dir, "Library"))

\* cstest.getTestCLIConfigDir(username)
getTestCLIConfigDir(userOk) ==
    LET h == getTestUserHomeDir(userOk)
    IN  IF h.err # NoErr
        THEN DirFail(WithErr(h.err, <<"ErrFailedGettingCLIConfigDir">>))
        ELSE DirOk(DirPathJoin(h.dir, DotConfigPathSegment))

\* cstest.getTestProjectDir(args)
getTestProjectDir(userOk, projectOk) ==
    LET h == getTestUserHomeDir(userOk)
    IN  IF h.err # NoErr THEN DirFail(h.err)
        ELSE IF ~projectOk THEN DirFail(<<"ErrEmpty">>)
        ELSE DirOk(<<"proj">>)

\* cstest.NewTestDirsProvider(args): userOk = a valid Username,
\* projectOk = a non-empty ProjectDir
NewTestDirsProvider(userOk, projectOk) ==
    [isNil |-> FALSE,
     UserHomeDirFunc |-> getTestUserHomeDir(userOk),
     UserConfigDirFunc |-> getTestUserConfigDir(userOk),
     ProjectDirFunc |-> getTestProjectDir(userOk, projectOk),
     CLIConfigDirFunc |-> Func(getTestCLIConfigDir(userOk))]

\* (dp *DirsProvider) CLIConfigDirType()
DirsProvider_CLIConfigDirType(dp) ==
    LET r == IF goos = "linux" THEN dp.UserConfigDirFunc ELSE dp.UserHomeDirFunc
        sentinel == IF goos = "linux" THEN "ErrFailedGettingUserConfigDir"
                    ELSE "ErrFailedGettingUserHomeDir"
    IN  IF r.err # NoErr
        THEN [dir |-> r.dir, err |-> NewErr(<<sentinel>>, r.err)]
        ELSE [dir |-> DirPathJoin(r.dir, DotConfigPathSegment), err |-> NoErr]

\* dp.CLIConfigDirFunc()
CLIConfigDirFunc(dp) ==
    IF dp.CLIConfigDirFunc.method THEN DirsProvider_CLIConfigDirType(dp)
    ELSE [dir |-> dp.CLIConfigDirFunc.dir, err |-> dp.CLIConfigDirFunc.err]

\* ConfigDir(dirType, configSlug, dp)
ConfigDir(dirType, configSlug, dpArg) ==
    LET dp == IF dpArg.isNil THEN DefaultDirsProvider ELSE dpArg
    IN  CASE dirType = CLIConfigDirType ->
                LET r == CLIConfigDirFunc(dp)
                IN  IF r.err # NoErr THEN [cd |-> EmptyPath, err |-> r.err]
                    ELSE [cd |-> DirPathJoin(r.dir, configSlug), err |-> NoErr]
          [] dirType = ProjectConfigDirType ->
                LET r == dp.ProjectDirFunc
                IN  IF r.err # NoErr
                    THEN [cd |-> EmptyPath,
                          err |-> NewErr(<<"ErrFailedGettingWorkingDir">>, r.err)]
                    ELSE [cd |-> DirPathJoin(r.dir, DotSlug(configSlug)),
                          err |-> NoErr]
          [] dirType = AppConfigDirType ->
                LET r == dp.UserConfigDirFunc
                IN  IF r.err # NoErr
                    THEN [cd |-> EmptyPath,
                          err |-> NewErr(<<"ErrFailedGettingUserConfigDir">>, r.err)]
                    ELSE [cd |-> DirPathJoin(r.dir, configSlug), err |-> NoErr]
          [] dirType = UnspecifiedConfigDirType ->
                [cd |-> EmptyPath, err |-> <<"ErrConfigDirTypeNotSet">>]
          [] OTHER ->
                [cd |-> EmptyPath, err |-> <<"ErrInvalidConfigDirType">>]

\* ------------------------------------------------------------------------
\* configStore: one (directory kind, relative file) pair.  Every method is
\* an operator from the store (and the file system) to the store after the
\* call (memoized directory and cached file-system view included), the file
\* system after the call, and the results.
\* ------------------------------------------------------------------------
NilFS == [set |-> FALSE, root |-> EmptyPath]

\* dt.DirFS(dir)
DirFS(dir) == [set |-> TRUE, root |-> dir]

\* NewConfigStore(dirType, args)
NewConfigStore(dirType, csArgs) ==
    [dirType |-> dirType,
     configSlug |-> csArgs.ConfigSlug,
     configDir |-> EmptyPath,
     relFilepath |-> csArgs.RelFilepath,
     dirsProvider |-> IF csArgs.DirsProvider.isNil THEN DefaultDirsProvider
                      ELSE csArgs.DirsProvider,
     fs |-> NilFS]

\* the directory resolved on every call, never remembered
ConfigDirUnmemoized(cs) ==
    Bind({ [cs |-> [cs EXCEPT !.configDir = r.cd], dir |-> r.cd, err |-> r.err] :
             r \in {ConfigDir(cs.dirType, cs.configSlug, cs.dirsProvider)} })

\* (cs *configStore) ConfigDir()
configStore_ConfigDir(cs) ==
    IF cs.configDir # EmptyPath
    THEN [cs |-> cs, dir |-> cs.configDir, err |-> NoErr]
    ELSE Bind({ [cs |-> [cs EXCEPT !.configDir = r.cd], dir |-> r.cd, err |-> r.err] :
                  r \in {ConfigDir(cs.dirType, cs.configSlug, cs.dirsProvider)} })

\* (cs *configStore) GetFilepath()
GetFilepath(cs) ==
    Bind({ IF d.err # NoErr THEN [cs |-> d.cs, fp |-> EmptyPath, err |-> d.err]
           ELSE IF ~ValidPath(d.cs.relFilepath)
                THEN [cs |-> d.cs, fp |-> EmptyPath,
                      err |-> <<"ErrInvalid", "ErrInvalidForOpen">>]
                ELSE [cs |-> d.cs, fp |-> FilepathJoin(d.dir, d.cs.relFilepath),
                      err |-> NoErr] :
             d \in {configStore_ConfigDir(cs)} })

\* (cs *configStore) getFS()
getFS(cs) ==
    IF cs.fs.set THEN [cs |-> cs, fs |-> cs.fs, err |-> NoErr]
    ELSE Bind({ IF d.err # NoErr THEN [cs |-> d.cs, fs |-> d.cs.fs, err |-> d.err]
                ELSE [cs |-> [d.cs EXCEPT !.fs = DirFS(d.dir)],
                      fs |-> DirFS(d.dir), err |-> NoErr] :
                  d \in {configStore_ConfigDir(cs)} })

\* relFilepath.Stat(fSys): a view rooted at "" and a malformed name both fail
RelStat(fsv, rel, fsx) ==
    IF fsv.root = EmptyPath \/ ~ValidPath(rel) THEN <<"stat", "ErrInvalid">>
    ELSE Stat(fsx, FilepathJoin(fsv.root, rel))

\* relFilepath.ReadFile(fSys)
RelReadFile(fsv, rel, fsx) ==
    IF fsv.root = EmptyPath \/ ~ValidPath(rel)
    THEN [data |-> <<>>, err |-> <<"open", "ErrInvalid">>]
    ELSE ReadFile(fsx, FilepathJoin(fsv.root, rel))

\* every file reported as existing
ExistsAlways(cs, fsx) == Bind({ [cs |-> f.cs, exists |-> TRUE] : f \in {getFS(cs)} })

\* (cs *configStore) Exists()
Exists(cs, fsx) ==
    Bind({ IF f.err # NoErr THEN [cs |-> f.cs, exists |-> FALSE]
           ELSE [cs |-> f.cs,
                 exists |-> RelStat(f.fs, f.cs.relFilepath, fsx) = NoErr] :
             f \in {getFS(cs)} })

\* no error ever recognised as "no such file or directory"
NoSuchFileNever(err) == FALSE

\* NoSuchFileOrDirectory(err): a PathError of op "open" with errno ENOENT
NoSuchFileOrDirectory(err) ==
    /\ err # NoErr
    /\ Len(err) >= 2
    /\ err[1] = "open"
    /\ err[2] = "ENOENT"

\* (cs *configStore) Load()
Load(cs, fsx) ==
    Bind({ IF f.err # NoErr
           THEN [cs |-> f.cs, data |-> <<>>,
                 err |-> WithErr(<<"ErrFailedToGetConfigFileSystem">>, f.err)]
           ELSE Bind({ LET e1 == IF NoSuchFileOrDirectory(r.err)
                                 THEN NewErr(<<"ErrFileDoesNotExist">>, r.err)
                                 ELSE r.err
                       IN  [cs |-> f.cs, data |-> r.data,
                            err |-> IF r.err # NoErr
                                    THEN NewErr(<<"ErrFailedToReadFile">>, e1)
                                    ELSE NoErr] :
                         r \in {RelReadFile(f.fs, f.cs.relFilepath, fsx)} }) :
             f \in {getFS(cs)} })

\* (cs *configStore) LoadJSON(data)
LoadJSON(cs, fsx, into) ==
    Bind({ IF l.err # NoErr
           THEN [cs |-> l.cs, val |-> into,
                 err |-> WithErr(NewErr(<<"ErrFailedToReadConfigFile">>, l.err),
                                 <<"ErrFailedToLoadJSON">>)]
           ELSE Bind({ IF u.err # NoErr
                       THEN [cs |-> l.cs, val |-> u.val,
                             err |-> WithErr(NewErr(<<"ErrFailedToUnmarshalConfigFile">>,
                                                    u.err),
                                             <<"ErrFailedToLoadJSON">>)]
                       ELSE [cs |-> l.cs, val |-> u.val, err |-> NoErr] :
                         u \in {Unmarshal(l.data, into)} }) :
             l \in {Load(cs, fsx)} })

\* (cs *configStore) ensureFilepath()
ensureFilepath(cs, fsx) ==
    Bind({ IF g.err # NoErr
           THEN [cs |-> g.cs, fsx |-> fsx, fp |-> g.fp, err |-> g.err]
           ELSE Bind({ [cs |-> g.cs, fsx |-> m.fsx, fp |-> g.fp, err |-> m.err] :
                         m \in {MkdirAll(fsx, PathDir(g.fp))} }) :
             g \in {GetFilepath(cs)} })

\* SetLogger(l)
SetLogger(l) == l

\* EnsureLogger(): panics when no logger has been set
EnsureLoggerPanics == logger = "nil"

\* CloseOrLog(c), with closeErr what c.Close() returns.  Logger() is called
\* first, ahead of the deferred recover and of c.Close(): its panic leaves
\* the function at once.  With a logger, Close is called and its error
\* is logged.
CloseOrLog(closeErr) ==
    IF EnsureLoggerPanics
    THEN [closed |-> FALSE, logged |-> FALSE, panicked |-> TRUE]
    ELSE [closed |-> TRUE, logged |-> closeErr # NoErr, panicked |-> FALSE]

\* a Save that never reached dt.CreateFile, or that failed in it
NotOpened(cs, fsx, err) ==
    [cs |-> cs, fsx |-> fsx, err |-> err, opened |-> FALSE, closed |-> FALSE,
     logged |-> FALSE, panicked |-> FALSE]

\* (cs *configStore) Save(data) on a device where file.Write returns
\* writeErr (nothing written when it fails) and file.Close returns closeErr:
\* err is what the body leaves in the result, panicked whether the deferred
\* CloseOrLog panicked on the way out instead of letting Save return
SaveIO(cs, fsx, data, writeErr, closeErr) ==
    Bind({ IF e.err # NoErr THEN NotOpened(e.cs, e.fsx, e.err)
           ELSE Bind({ IF c.err # NoErr THEN NotOpened(e.cs, e.fsx, c.err)
                       ELSE Bind({ [cs |-> e.cs,
                                    fsx |-> IF writeErr = NoErr
                                            THEN WriteFile(c.fsx, e.fp, data).fsx
                                            ELSE c.fsx,
                                    err |-> writeErr, opened |-> TRUE,
                                    closed |-> d.closed, logged |-> d.logged,
                                    panicked |-> d.panicked] :
                                     d \in {CloseOrLog(closeErr)} }) :
                         c \in {WriteFile(e.fsx, e.fp, <<>>)} }) :
             e \in {ensureFilepath(cs, fsx)} })

\* (cs *configStore) Save(data) where the write and the close succeed
Save(cs, fsx, data) ==
    Bind({ [cs |-> s.cs, fsx |-> s.fsx, err |-> s.err] :
             s \in {SaveIO(cs, fsx, data, NoErr, NoErr)} })

\* (cs *configStore) SetConfigDir(dir)
SetConfigDir(cs, dir) == [cs EXCEPT !.configDir = dir, !.fs = DirFS(dir)]

\* the loop of EnsureConfigDirs: every subdirectory is tried, the failures
\* are collected in es
RECURSIVE EnsureConfigDirsLoop(_, _, _, _)
EnsureConfigDirsLoop(fsx, configDir, subdirs, es) ==
    IF subdirs = <<>> THEN [fsx |-> fsx, errs |-> es]
    ELSE Bind({ EnsureConfigDirsLoop(
                    m.fsx, configDir, Tail(subdirs),
                    IF m.err # NoErr
                    THEN Append(es, [chain |-> NewErr(<<"ErrFailedCreatingDirectory">>,
                                                      m.err),
                                     dir |-> DirPathJoin(configDir, Head(subdirs))])
                    ELSE es) :
                  m \in {MkdirAll(fsx, DirPathJoin(configDir, Head(subdirs)))} })

\* the loop of EnsureConfigDirs left at the first failure
RECURSIVE EnsureConfigDirsLoopStopping(_, _, _, _)
EnsureConfigDirsLoopStopping(fsx, configDir, subdirs, es) ==
    IF subdirs = <<>> \/ es # <<>> THEN [fsx |-> fsx, errs |-> es]
    ELSE Bind({ EnsureConfigDirsLoopStopping(
                    m.fsx, configDir, Tail(subdirs),
                    IF m.err # NoErr
                    THEN Append(es, [chain |-> NewErr(<<"ErrFailedCreatingDirectory">>,
                                                      m.err),
                                     dir |-> DirPathJoin(configDir, Head(subdirs))])
                    ELSE es) :
                  m \in {MkdirAll(fsx, DirPathJoin(configDir, Head(subdirs)))} })

\* EnsureConfigDirs giving up at the first subdirectory that fails
EnsureConfigDirsStopping(fsx, configDir, subdirs) ==
    Bind({ [fsx |-> l.fsx, err |-> CombineErrs(l.errs), errs |-> l.errs] :
             l \in {EnsureConfigDirsLoopStopping(fsx, configDir, subdirs, <<>>)} })

\* EnsureConfigDirs(configDir, subdirs): errs are the entries of the
\* combined error err
EnsureConfigDirs(fsx, configDir, subdirs) ==
    Bind({ [fsx |-> l.fsx, err |-> CombineErrs(l.errs), errs |-> l.errs] :
             l \in {EnsureConfigDirsLoop(fsx, configDir, subdirs, <<>>)} })

\* (cs *configStore) EnsureDirs(subdirs)
EnsureDirs(cs, fsx, subdirs) ==
    Bind({ IF d.err # NoErr
           THEN [cs |-> d.cs, fsx |-> fsx, err |-> d.err, errs |-> <<>>]
           ELSE Bind({ [cs |-> d.cs, fsx |-> e.fsx, err |-> e.err, errs |-> e.errs] :
                         e \in {EnsureConfigDirs(fsx, d.dir, subdirs)} }) :
             d \in {configStore_ConfigDir(cs)} })

\* nothing written
SaveJSONSkipped(cs, fsx, v) == [cs |-> cs, fsx |-> fsx, err |-> NoErr]

\* a value jsonv2.Marshal has no encoding for: make(chan int)
Chan == [chan |-> "int"]

\* an encoding that does not keep the Debug field
jsonv2_MarshalLossy(v) ==
    IF DOMAIN v = DOMAIN ZeroValue
    THEN [data |-> Marshal([v EXCEPT !.Debug = TRUE]), err |-> NoErr]
    ELSE [data |-> <<>>, err |-> <<"json", "ErrUnsupportedType">>]

\* jsonv2.Marshal(data, ...): the bytes, or an error for a value of a kind
\* that has no JSON encoding
jsonv2_Marshal(v) ==
    IF DOMAIN v = DOMAIN ZeroValue THEN [data |-> Marshal(v), err |-> NoErr]
    ELSE [data |-> <<>>, err |-> <<"json", "ErrUnsupportedType">>]

\* Save called with whatever Marshal left in jsonData, its error ignored
SaveJSONUnchecked(cs, fsx, v) ==
    Bind({ Save(cs, fsx, m.data) : m \in {jsonv2_Marshal(v)} })

\* (cs *configStore) SaveJSON(data)
SaveJSON(cs, fsx, v) ==
    Bind({ IF m.err # NoErr THEN [cs |-> cs, fsx |-> fsx, err |-> m.err]
           ELSE Save(cs, fsx, m.data) :
             m \in {jsonv2_Marshal(v)} })

\* (cs *configStore) loadConfigIfExists(rc, dirType, opts)
loadConfigIfExists(cs, fsx, rc) ==
    Bind({ IF ~x.exists THEN [cs |-> x.cs, rc |-> rc, err |-> NoErr]
           ELSE Bind({ IF l.err # NoErr
                       THEN [cs |-> l.cs, rc |-> l.val, err |-> l.err]
                       ELSE Bind({ IF g.err # NoErr
                                   THEN [cs |-> g.cs, rc |-> l.val, err |-> g.err]
                                   ELSE Bind({ [cs |-> g.cs, rc |-> n.val,
                                                err |-> n.err] :
                                                 n \in {Normalize(l.val)} }) :
                                     g \in {GetFilepath(l.cs)} }) :
                         l \in {LoadJSON(x.cs, fsx, rc)} }) :
             x \in {Exists(cs, fsx)} })

\* the empty value persisted before it is normalized
createConfigSavingFirst(cs, fsx, rc) ==
    Bind({ IF g.err # NoErr
           THEN [cs |-> g.cs, fsx |-> fsx, rc |-> rc, err |-> g.err]
           ELSE Bind({ IF sv.err # NoErr
                       THEN [cs |-> sv.cs, fsx |-> sv.fsx, rc |-> rc, err |-> sv.err]
                       ELSE Bind({ [cs |-> sv.cs, fsx |-> sv.fsx, rc |-> n.val,
                                    err |-> n.err] :
                                     n \in {Normalize(rc)} }) :
                         sv \in {SaveJSON(g.cs, fsx, rc)} }) :
             g \in {GetFilepath(cs)} })

\* (cs *configStore) createConfig(rc, dirType, opts)
createConfig(cs, fsx, rc) ==
    Bind({ IF g.err # NoErr
           THEN [cs |-> g.cs, fsx |-> fsx, rc |-> rc, err |-> g.err]
           ELSE Bind({ IF n.err # NoErr
                       THEN [cs |-> g.cs, fsx |-> fsx, rc |-> n.val, err |-> n.err]
                       ELSE Bind({ [cs |-> sv.cs, fsx |-> sv.fsx, rc |-> n.val,
                                    err |-> sv.err] :
                                     sv \in {SaveJSON(g.cs, fsx, n.val)} }) :
                         n \in {Normalize(rc)} }) :
             g \in {GetFilepath(cs)} })

\* (cs *configStore) ensureConfig(rc, dirType, opts)
ensureConfig(cs, fsx, rc) ==
    Bind({ IF l.err # NoErr
           THEN [cs |-> l.cs, fsx |-> fsx, rc |-> l.rc, err |-> l.err]
           ELSE IF IsZero(l.rc) THEN createConfig(l.cs, fsx, l.rc)
           ELSE [cs |-> l.cs, fsx |-> fsx, rc |-> l.rc, err |-> NoErr] :
             l \in {loadConfigIfExists(cs, fsx, rc)} })

\* creation without the existence check
initConfigOverwriting(cs, fsx, rc) ==
    Bind({ createConfig(x.cs, fsx, rc) : x \in {Exists(cs, fsx)} })

\* (cs *configStore) initConfig(rc, dirType, opts)
initConfig(cs, fsx, rc) ==
    Bind({ IF x.exists
           THEN [cs |-> x.cs, fsx |-> fsx, rc |-> rc,
                 err |-> <<"ErrConfigAlreadyExists">>]
           ELSE createConfig(x.cs, fsx, rc) :
             x \in {Exists(cs, fsx)} })

\* ------------------------------------------------------------------------
\* ConfigStores
\* ------------------------------------------------------------------------
AllKinds == {AppConfigDirType, CLIConfigDirType, ProjectConfigDirType}

DefaultDirTypes == <<CLIConfigDirType, ProjectConfigDirType>>

SeqRange(q) == { q[i] : i \in 1..Len(q) }

\* NewConfigStores(args): the kind list (defaulted when empty) and one store
\* per kind of the list
NewConfigStores(cssArgs) ==
    LET dirTypes == IF Len(cssArgs.DirTypes) = 0 THEN DefaultDirTypes
                    ELSE cssArgs.DirTypes
    IN  [DirTypes |-> dirTypes,
         StoreMap |-> [k \in SeqRange(dirTypes) |->
                          NewConfigStore(k, cssArgs.ConfigStoreArgs)]]

\* a ConfigStore interface value: nil, or a store
NilStore == [nil |-> TRUE]

StoreRef(cs) == [nil |-> FALSE, cs |-> cs]

\* stores.StoreMap[kind]: the zero value, nil, for a kind without an entry
MapLookup(stores, kind) ==
    IF kind \in DOMAIN stores.StoreMap THEN StoreRef(stores.StoreMap[kind])
    ELSE NilStore

\* (stores *ConfigStores) AppConfigStore()
AppConfigStore(stores) == MapLookup(stores, AppConfigDirType)

\* (stores *ConfigStores) CLIConfigStore()
CLIConfigStore(stores) == MapLookup(stores, CLIConfigDirType)

\* (stores *ConfigStores) ProjectConfigStore()
ProjectConfigStore(stores) == MapLookup(stores, ProjectConfigDirType)

\* a pointer to a configuration value: nil, or the value it points at
NilPtr == [nil |-> TRUE, val |-> ZeroValue]

Ptr(v) == [nil |-> FALSE, val |-> v]

\* ------------------------------------------------------------------------
\* Initial states: the build, the configuration type, a store set built by
\* NewConfigStores, and a file system in which each store's file is missing,
\* holds some content, cannot be created, or cannot be read
\* ------------------------------------------------------------------------
ConfigSlug == "acme"

ConfigFile == <<"config.json">>

GoosValues == {"linux", "darwin"}

SetProviders ==
    {NilProvider, NewTestDirsProvider(TRUE, TRUE),
     NewTestDirsProvider(TRUE, FALSE), NewTestDirsProvider(FALSE, TRUE)}

KindLists ==
    { <<>>,
      <<ProjectConfigDirType>>,
      <<AppConfigDirType, CLIConfigDirType, ProjectConfigDirType>> }

Corrupt == <<"{", "Theme">>

FixtureValues ==
    { [Theme |-> "light", Debug |-> FALSE],
      [Theme |-> "", Debug |-> TRUE],
      [Theme |-> "dark", Debug |-> FALSE],
      ZeroValue }

FileStates ==
    { [kind |-> "missing", data |-> <<>>],
      [kind |-> "blocked", data |-> <<>>],
      [kind |-> "isdir", data |-> <<>>],
      [kind |-> "file", data |-> Corrupt] }
    \cup { [kind |-> "file", data |-> Marshal(v)] : v \in FixtureValues }

\* the states tried for the file of each kind
KindFileStates(k) ==
    IF k = AppConfigDirType
    THEN { st \in FileStates :
             \/ st.kind = "missing"
             \/ st.data = Corrupt
             \/ st.data = Marshal([Theme |-> "dark", Debug |-> FALSE]) }
    ELSE FileStates

\* one state per kind of the set; the kinds outside it have no file
InitialFileStates(kinds) ==
    { st \in [AllKinds -> FileStates] :
        \A k \in AllKinds :
            IF k \in kinds THEN st[k] \in KindFileStates(k)
            ELSE st[k].kind = "missing" }

BaseFS == [p \in {<<"home">>, <<"work">>, <<"proj">>} |-> DirNode]

\* the file system in which the file of every kind of the set is in state
\* st[kind]: "blocked" puts a regular file where the config directory would
\* be, "isdir" a directory where the config file would be.  A path below a
\* regular file does not exist.
InitialFS(kinds, dp, st) ==
    Bind({ Bind({ [p \in { q \in c.files \cup c.dirs :
                            \A x \in ProperPrefixes(q) : x \notin c.files } |->
                     IF p \in c.files
                     THEN FileNode(st[CHOOSE k \in c.fileKinds :
                                        /\ t[k] = p
                                        /\ \A j \in c.fileKinds : t[j] = p => k <= j].data)
                     ELSE DirNode] :
                    c \in {[fileKinds |-> { k \in DOMAIN t : st[k].kind \in {"blocked", "file"} },
                            files |-> { t[k] : k \in { j \in DOMAIN t :
                                                        st[j].kind \in {"blocked", "file"} } },
                            dirs |-> (DOMAIN BaseFS)
                                     \cup UNION { ProperPrefixes(t[k]) : k \in DOMAIN t }
                                     \cup { t[k] : k \in { j \in DOMAIN t :
                                                            st[j].kind = "isdir" } }]} }) :
             t \in {[k \in { j \in kinds : /\ ConfigDir(j, ConfigSlug, dp).err = NoErr
                                            /\ st[j].kind # "missing" } |->
                        IF st[k].kind = "blocked" THEN ConfigDir(k, ConfigSlug, dp).cd
                        ELSE FilepathJoin(ConfigDir(k, ConfigSlug, dp).cd, ConfigFile)]} })

NoRet == [op |-> "none", prc |-> NilPtr, err |-> NoErr]

NoAcc == [rc |-> NilPtr, prc |-> NilPtr, dirType |-> UnspecifiedConfigDirType,
          cnt |-> 0, i |-> 0]

NoArgs == [DirTypes |-> <<>>, DirsProvider |-> NilProvider]

Init ==
    /\ goos \in GoosValues
    /\ normalizeMode \in NormalizeModes
    /\ mergeMode \in MergeModes
    /\ \E list \in KindLists, dp \in SetProviders :
          LET css == NewConfigStores(
                        [DirTypes |-> list,
                         ConfigStoreArgs |-> [ConfigSlug |-> ConfigSlug,
                                              RelFilepath |-> ConfigFile,
                                              DirsProvider |-> dp]])
          IN  /\ DirTypes = css.DirTypes
              /\ StoreMap = css.StoreMap
              /\ \E st \in InitialFileStates(SeqRange(css.DirTypes)) :
                    fsys = InitialFS(SeqRange(css.DirTypes), dp, st)
    /\ pc = "idle"
    /\ args = NoArgs
    /\ pending = {}
    /\ rcMap = [k \in AllKinds |-> NilPtr]
    /\ errs = <<>>
    /\ acc = NoAcc
    /\ ret = NoRet
    /\ log = <<>>
    /\ outcome = [k \in AllKinds |-> "unvisited"]
    /\ ops = 0
    /\ logger = "slog"
    /\ openFiles = {}

\* ------------------------------------------------------------------------
\* LoadRootConfig: the gather loop (one store per step, in the order the map
\* iteration happens to produce), then mergeRootConfigs
\* ------------------------------------------------------------------------
MaxOps == 1

\* The arguments of a load as the package's callers build them: the kind list
\* and the provider the store set was built with, or left out
LoadArgs ==
    LET dp == StoreMap[DirTypes[1]].dirsProvider
    IN  { [DirTypes |-> l,
           DirsProvider |-> IF dp = DefaultDirsProvider THEN NilProvider ELSE dp] :
            l \in {DirTypes} \cup (IF DirTypes = DefaultDirTypes THEN {<<>>} ELSE {}) }

\* LoadRootConfig, up to the gather loop
LoadRootConfigBegin(a) ==
    /\ pc = "idle"
    /\ ops < MaxOps
    /\ args' = [a EXCEPT !.DirTypes = IF Len(a.DirTypes) = 0 THEN DefaultDirTypes
                                       ELSE a.DirTypes]
    /\ pending' = DOMAIN StoreMap
    /\ rcMap' = [k \in AllKinds |-> NilPtr]
    /\ errs' = <<>>
    /\ acc' = NoAcc
    /\ ret' = NoRet
    /\ log' = <<>>
    /\ outcome' = [k \in AllKinds |-> "unvisited"]
    /\ pc' = "gather"
    /\ UNCHANGED <<logger, openFiles, goos, normalizeMode, mergeMode, fsys, DirTypes, StoreMap, ops>>

\* the body of the gather loop for one store, given the store with the
\* provider of the arguments put in
gatherBody(cs, fsx, dirType) ==
    Bind({ IF dirType = ProjectConfigDirType /\ l.err = NoErr /\ IsZero(l.rc)
           THEN [cs |-> l.cs, fsx |-> fsx, outcome |-> "absent", rc |-> NilPtr,
                 errs |-> <<>>]
           ELSE Bind({ IF r.err # NoErr
                       THEN Bind({ [cs |-> g.cs, fsx |-> r.fsx, outcome |-> "failed",
                                    rc |-> NilPtr,
                                    errs |-> << [chain |-> NewErr(<<"ErrFailedToEnsureConfig">>,
                                                                  r.err),
                                                 filepath |-> g.fp] >>] :
                                     g \in {GetFilepath(r.cs)} })
                       ELSE [cs |-> r.cs, fsx |-> r.fsx,
                             outcome |-> IF IsZero(l.rc) THEN "created" ELSE "loaded",
                             rc |-> Ptr(r.rc), errs |-> <<>>] :
                         r \in {IF dirType = ProjectConfigDirType
                                THEN [cs |-> l.cs, fsx |-> fsx, rc |-> l.rc,
                                      err |-> l.err]
                                ELSE ensureConfig(cs, fsx, ZeroValue)} }) :
             l \in {loadConfigIfExists(cs, fsx, ZeroValue)} })

gatherOne(cs0, fsx, dirType, a) ==
    Bind({ gatherBody(cs, fsx, dirType) :
             cs \in {IF ~a.DirsProvider.isNil
                     THEN [cs0 EXCEPT !.dirsProvider = a.DirsProvider] ELSE cs0} })

\* one iteration of: for dirType, store := range stores.StoreMap
GatherStore(k) ==
    /\ pc = "gather"
    /\ k \in pending
    /\ \E r \in {gatherOne(StoreMap[k], fsys, k, args)} :
           /\ StoreMap' = [StoreMap EXCEPT ![k] = r.cs]
           /\ fsys' = r.fsx
           /\ rcMap' = [rcMap EXCEPT ![k] = r.rc]
           /\ errs' = errs \o r.errs
           /\ outcome' = [outcome EXCEPT ![k] = r.outcome]
    /\ pending' = pending \ {k}
    /\ UNCHANGED <<logger, openFiles, goos, normalizeMode, mergeMode, DirTypes, pc, args, acc, ret,
                   log, ops>>

\* the merge phase entered while stores are still waiting to be visited
GatherEndEarly ==
    /\ pc = "gather"
    /\ LET err == CombineErrs(errs)
       IN  IF err # NoErr
           THEN /\ ret' = [op |-> "LoadRootConfig", prc |-> NilPtr, err |-> err]
                /\ pc' = "idle"
                /\ ops' = ops + 1
           ELSE /\ pc' = "merge"
                /\ UNCHANGED <<ret, ops>>
    /\ UNCHANGED <<logger, openFiles, goos, normalizeMode, mergeMode, fsys, DirTypes, StoreMap, args,
                   pending, rcMap, errs, acc, log, outcome>>

\* after the loop: CombineErrs(errs), return on error, else go on to merge
GatherEnd ==
    /\ pc = "gather"
    /\ pending = {}
    /\ LET err == CombineErrs(errs)
       IN  IF err # NoErr
           THEN /\ ret' = [op |-> "LoadRootConfig", prc |-> NilPtr, err |-> err]
                /\ pc' = "idle"
                /\ ops' = ops + 1
           ELSE /\ pc' = "merge"
                /\ UNCHANGED <<ret, ops>>
    /\ UNCHANGED <<logger, openFiles, goos, normalizeMode, mergeMode, fsys, DirTypes, StoreMap, args,
                   pending, rcMap, errs, acc, log, outcome>>

\* counts every kind of the list, with or without a value
ValidIndexesAll(m, dirTypes) == 1..Len(dirTypes)

\* indexes (from 1) of the kinds of the list that hold a value in rcMap
ValidIndexes(m, dirTypes) == { i \in 1..Len(dirTypes) : ~m[dirTypes[i]].nil }

FirstValid(m, dirTypes) ==
    CHOOSE i \in ValidIndexes(m, dirTypes) :
        \A j \in ValidIndexes(m, dirTypes) : i <= j

\* mergeRootConfigs, up to the merge loop: count the valid configs, find the
\* first one, and return early with none or one
MergeStart ==
    /\ pc = "merge"
    /\ LET valid == ValidIndexes(rcMap, args.DirTypes)
           cnt == Cardinality(valid)
       IN  IF valid = {}
           THEN /\ ret' = [op |-> "LoadRootConfig", prc |-> NilPtr,
                           err |-> <<"ErrNotValidConfigDirsAvailable">>]
                /\ pc' = "idle"
                /\ ops' = ops + 1
                /\ acc' = [NoAcc EXCEPT !.cnt = cnt]
           ELSE LET first == FirstValid(rcMap, args.DirTypes)
                    prc == rcMap[args.DirTypes[first]]
                    \* start = i + 1 with i counted from 0
                    locals == [rc |-> prc, prc |-> prc,
                               dirType |-> UnspecifiedConfigDirType,
                               cnt |-> cnt, i |-> first]
                IN  IF cnt <= 1
                    THEN /\ ret' = [op |-> "LoadRootConfig", prc |-> prc,
                                    err |-> NoErr]
                         /\ pc' = "idle"
                         /\ ops' = ops + 1
                         /\ acc' = locals
                    ELSE /\ pc' = "mergeLoop"
                         /\ acc' = locals
                         /\ UNCHANGED <<ret, ops>>
    /\ UNCHANGED <<logger, openFiles, goos, normalizeMode, mergeMode, fsys, DirTypes, StoreMap, args,
                   pending, rcMap, errs, log, outcome>>

\* the call with receiver and argument exchanged: rc.Merge(rcMap[typ])
mergeCallSwapped(recv, rc) ==
    LET m == Merge(rc, recv)
    IN  [recv |-> rc, arg |-> recv, returned |-> m.returned,
         receiver |-> recv]

\* rc = rcMap[typ].Merge(rc): the call as made (receiver and argument), what
\* it returned and what the receiver holds afterwards
mergeCall(recv, rc) ==
    LET m == Merge(recv, rc)
    IN  [recv |-> recv, arg |-> rc, returned |-> m.returned,
         receiver |-> m.receiver]

\* one iteration of: for i := start; i < len(args.DirTypes); i++
MergeStep ==
    /\ pc = "mergeLoop"
    /\ acc.i < Len(args.DirTypes)
    /\ LET typ == args.DirTypes[acc.i + 1]
       IN  IF rcMap[typ].nil
           THEN /\ acc' = [acc EXCEPT !.i = acc.i + 1]
                /\ UNCHANGED <<rcMap, log>>
           ELSE LET c == mergeCall(rcMap[typ].val, acc.rc.val)
                IN  /\ rcMap' = [rcMap EXCEPT ![typ] = Ptr(c.receiver)]
                    /\ acc' = [acc EXCEPT !.rc = Ptr(c.returned),
                                          !.dirType = typ,
                                          !.i = acc.i + 1]
                    /\ log' = Append(log, [dirType |-> typ, recv |-> c.recv,
                                           arg |-> c.arg, returned |-> c.returned])
    /\ UNCHANGED <<logger, openFiles, goos, normalizeMode, mergeMode, fsys, DirTypes, StoreMap, pc,
                   args, pending, errs, ret, outcome, ops>>

\* after the merge loop: the value LoadRootConfig returns
MergeEnd ==
    /\ pc = "mergeLoop"
    /\ acc.i >= Len(args.DirTypes)
    /\ IF acc.dirType = UnspecifiedConfigDirType
       THEN ret' = [op |-> "LoadRootConfig", prc |-> acc.prc,
                    err |-> <<"ErrUnexpectedError", "ErrInternalError",
                              "ErrDirTypeNotAssignAfterMerge">>]
       ELSE ret' = [op |-> "LoadRootConfig", prc |-> rcMap[acc.dirType],
                    err |-> NoErr]
    /\ pc' = "idle"
    /\ ops' = ops + 1
    /\ UNCHANGED <<logger, openFiles, goos, normalizeMode, mergeMode, fsys, DirTypes, StoreMap, args,
                   pending, rcMap, errs, acc, log, outcome>>

\* ------------------------------------------------------------------------
\* InitProjectConfig(configSlug, configFile, opts)
\* ------------------------------------------------------------------------
NewProjectConfigStore(configSlug, configFile) ==
    NewConfigStore(ProjectConfigDirType,
                   [ConfigSlug |-> configSlug, RelFilepath |-> configFile,
                    DirsProvider |-> NilProvider])

InitProjectConfig ==
    /\ pc = "idle"
    /\ ops < MaxOps
    /\ \E r \in {initConfig(NewProjectConfigStore(ConfigSlug, ConfigFile), fsys,
                           ZeroValue)} :
           /\ fsys' = r.fsx
           /\ ret' = [op |-> "InitProjectConfig", prc |-> Ptr(r.rc), err |-> r.err]
    /\ ops' = ops + 1
    /\ UNCHANGED <<logger, openFiles, goos, normalizeMode, mergeMode, DirTypes, StoreMap, pc, args,
                   pending, rcMap, errs, acc, log, outcome>>

Next ==
    \/ \E a \in LoadArgs : LoadRootConfigBegin(a)
    \/ \E k \in AllKinds : GatherStore(k)
    \/ GatherEnd
    \/ MergeStart
    \/ MergeStep
    \/ MergeEnd
    \/ InitProjectConfig

Spec == Init /\ [][Next]_vars

TypeOK ==
    /\ pc \in {"idle", "gather", "merge", "mergeLoop"}
    /\ ops \in 0..MaxOps

\* ------------------------------------------------------------------------
\* One store on its own: Save, SaveJSON, Load, LoadJSON and Exists called in
\* any order on a store built by NewConfigStore
\* ------------------------------------------------------------------------
MaxStoreOps == 3

\* relative file paths, with and without subdirectories
StoreRelFilepaths == {<<"config.json">>, <<"config", "testdata.json">>}

StoreProviders == {NilProvider, NewTestDirsProvider(TRUE, TRUE)}

\* what is at the store's file path to begin with
StoreFileStates ==
    {[kind |-> "missing", data |-> <<>>], [kind |-> "blocked", data |-> <<>>],
     [kind |-> "isdir", data |-> <<>>], [kind |-> "file", data |-> Corrupt],
     [kind |-> "file", data |-> Marshal([Theme |-> "dark", Debug |-> FALSE])]}

StoreInitialFS(cs, st) ==
    LET fp == GetFilepath(cs).fp
        dir == PathDir(fp)
        dirs == CASE st.kind = "missing" -> {}
                  [] st.kind = "blocked" -> ProperPrefixes(dir)
                  [] st.kind = "isdir" -> Prefixes(fp)
                  [] OTHER -> ProperPrefixes(fp)
        files == CASE st.kind = "blocked" -> {dir}
                   [] st.kind = "file" -> {fp}
                   [] OTHER -> {}
    IN  [q \in (DOMAIN BaseFS) \cup dirs \cup files |->
            IF q \in files THEN FileNode(st.data) ELSE DirNode]

\* the byte contents Save is called with
SavedBytes == {Corrupt, <<>>, Marshal([Theme |-> "light", Debug |-> TRUE])}

\* the values SaveJSON is called with
SavedValues == ConfigValues \cup {Chan}

NoSave == [saved |-> FALSE, json |-> FALSE, data |-> <<>>, val |-> ZeroValue]

InitStore ==
    /\ goos \in GoosValues
    /\ normalizeMode = "noop"
    /\ mergeMode = "new"
    /\ \E kind \in AllKinds, rel \in StoreRelFilepaths, dp \in StoreProviders :
          LET cs == NewConfigStore(kind, [ConfigSlug |-> ConfigSlug,
                                          RelFilepath |-> rel,
                                          DirsProvider |-> dp])
          IN  /\ DirTypes = <<kind>>
              /\ StoreMap = [k \in {kind} |-> cs]
              /\ \E st \in StoreFileStates : fsys = StoreInitialFS(cs, st)
    /\ pc = "idle"
    /\ args = NoArgs
    /\ pending = {}
    /\ rcMap = [k \in AllKinds |-> NilPtr]
    /\ errs = <<>>
    /\ acc = NoAcc
    /\ ret = NoRet
    /\ log = <<NoSave>>
    /\ outcome = [k \in AllKinds |-> "unvisited"]
    /\ ops = 0
    /\ logger = "slog"
    /\ openFiles = {}

\* the one store of the set
TheKind == DirTypes[1]

TheStore == StoreMap[TheKind]

\* cs.Save(data)
StoreSave(data) ==
    /\ ops < MaxStoreOps
    /\ \E r \in {Save(TheStore, fsys, data)} :
           /\ StoreMap' = [StoreMap EXCEPT ![TheKind] = r.cs]
           /\ fsys' = r.fsx
           /\ ret' = [op |-> "Save", prc |-> NilPtr, err |-> r.err]
           /\ log' = IF r.err = NoErr
                     THEN <<[saved |-> TRUE, json |-> FALSE, data |-> data,
                             val |-> ZeroValue]>>
                     ELSE log
    /\ ops' = ops + 1
    /\ UNCHANGED <<logger, openFiles, goos, normalizeMode, mergeMode, DirTypes, pc, args, pending,
                   rcMap, errs, acc, outcome>>

\* cs.SaveJSON(&v)
StoreSaveJSON(v) ==
    /\ ops < MaxStoreOps
    /\ \E r \in {SaveJSON(TheStore, fsys, v)} :
           /\ StoreMap' = [StoreMap EXCEPT ![TheKind] = r.cs]
           /\ fsys' = r.fsx
           /\ ret' = [op |-> "SaveJSON", prc |-> Ptr(v), err |-> r.err]
           /\ log' = IF r.err = NoErr
                     THEN <<[saved |-> TRUE, json |-> TRUE, data |-> Marshal(v),
                             val |-> v]>>
                     ELSE log
    /\ ops' = ops + 1
    /\ UNCHANGED <<logger, openFiles, goos, normalizeMode, mergeMode, DirTypes, pc, args, pending,
                   rcMap, errs, acc, outcome>>

\* data, err := cs.Load()
StoreLoad ==
    /\ ops < MaxStoreOps
    /\ \E r \in {Load(TheStore, fsys)} :
           /\ StoreMap' = [StoreMap EXCEPT ![TheKind] = r.cs]
           /\ ret' = [op |-> "Load", prc |-> NilPtr, err |-> r.err,
                       data |-> r.data]
    /\ ops' = ops + 1
    /\ UNCHANGED <<logger, openFiles, goos, normalizeMode, mergeMode, fsys, DirTypes, pc, args,
                   pending, rcMap, errs, acc, log, outcome>>

\* var loaded T; err := cs.LoadJSON(&loaded)
StoreLoadJSON ==
    /\ ops < MaxStoreOps
    /\ \E r \in {LoadJSON(TheStore, fsys, ZeroValue)} :
           /\ StoreMap' = [StoreMap EXCEPT ![TheKind] = r.cs]
           /\ ret' = [op |-> "LoadJSON", prc |-> Ptr(r.val), err |-> r.err]
    /\ ops' = ops + 1
    /\ UNCHANGED <<logger, openFiles, goos, normalizeMode, mergeMode, fsys, DirTypes, pc, args,
                   pending, rcMap, errs, acc, log, outcome>>

\* cs.Exists()
StoreExists ==
    /\ ops < MaxStoreOps
    /\ \E r \in {Exists(TheStore, fsys)} :
           /\ StoreMap' = [StoreMap EXCEPT ![TheKind] = r.cs]
           /\ ret' = [op |-> "Exists", prc |-> NilPtr, err |-> NoErr,
                       exists |-> r.exists]
    /\ ops' = ops + 1
    /\ UNCHANGED <<logger, openFiles, goos, normalizeMode, mergeMode, fsys, DirTypes, pc, args,
                   pending, rcMap, errs, acc, log, outcome>>

NextStore ==
    \/ \E data \in SavedBytes : StoreSave(data)
    \/ \E v \in SavedValues : StoreSaveJSON(v)
    \/ StoreLoad
    \/ StoreLoadJSON
    \/ StoreExists

SpecStore == InitStore /\ [][NextStore]_vars

\* ------------------------------------------------------------------------
\* Directory resolution of one store: ConfigDir, SetConfigDir, Exists and
\* EnsureDirs called in any order while the answers of the provider's
\* functions may change; log holds one record per call
\* ------------------------------------------------------------------------
MaxDirOps == 3

\* a caller-supplied provider whose functions fail with a plain OS error
FailingDirsProvider ==
    [isNil |-> FALSE,
     UserHomeDirFunc |-> DirFail(<<"EACCES">>),
     UserConfigDirFunc |-> DirFail(<<"EACCES">>),
     ProjectDirFunc |-> DirFail(<<"EACCES">>),
     CLIConfigDirFunc |-> Func(DirFail(<<"EACCES">>))]

\* a caller-supplied provider whose functions all answer with one directory
MovedDirsProvider ==
    [isNil |-> FALSE,
     UserHomeDirFunc |-> DirOk(<<"mnt">>),
     UserConfigDirFunc |-> DirOk(<<"mnt">>),
     ProjectDirFunc |-> DirOk(<<"mnt">>),
     CLIConfigDirFunc |-> Func(DirOk(<<"mnt">>))]

\* the default wiring on a machine whose lookups fail (no $HOME, a removed
\* working directory)
FailingOSProvider ==
    [isNil |-> FALSE,
     UserHomeDirFunc |-> DirFail(<<"ENOENT">>),
     UserConfigDirFunc |-> DirFail(<<"ENOENT">>),
     ProjectDirFunc |-> DirFail(<<"ENOENT">>),
     CLIConfigDirFunc |-> BoundMethod]

\* the providers a store is built with
DirProviders == SetProviders \cup {FailingDirsProvider, FailingOSProvider}

\* what the provider's functions answer later on
ChangedProviders == {FailingDirsProvider, MovedDirsProvider}

\* the arguments of SetConfigDir
OverrideDirs == {EmptyPath, <<"tmp">>}

\* the arguments of EnsureDirs
SubdirLists == {<<"cache">>, <<"config.json", "cache">>, <<"cache", "config.json">>}

DirFileStates ==
    {[kind |-> "missing", data |-> <<>>], [kind |-> "blocked", data |-> <<>>],
     [kind |-> "file", data |-> Marshal([Theme |-> "dark", Debug |-> FALSE])]}

\* the file system a store starts from; nothing is laid out for a store
\* whose directory cannot be resolved
DirInitialFS(cs, st) ==
    IF GetFilepath(cs).err # NoErr THEN BaseFS ELSE StoreInitialFS(cs, st)

InitDir ==
    /\ goos \in GoosValues
    /\ normalizeMode = "noop"
    /\ mergeMode = "new"
    /\ \E kind \in AllKinds, dp \in DirProviders :
          LET cs == NewConfigStore(kind, [ConfigSlug |-> ConfigSlug,
                                          RelFilepath |-> ConfigFile,
                                          DirsProvider |-> dp])
          IN  /\ DirTypes = <<kind>>
              /\ StoreMap = [k \in {kind} |-> cs]
              /\ \E st \in DirFileStates : fsys = DirInitialFS(cs, st)
    /\ pc = "idle"
    /\ args = NoArgs
    /\ pending = {}
    /\ rcMap = [k \in AllKinds |-> NilPtr]
    /\ errs = <<>>
    /\ acc = NoAcc
    /\ ret = NoRet
    /\ log = <<>>
    /\ outcome = [k \in AllKinds |-> "unvisited"]
    /\ ops = 0
    /\ logger = "slog"
    /\ openFiles = {}

\* one call in the log: what was passed, what came back, the provider at
\* the time of the call and what its functions would have answered for the
\* store's kind, whether the store had no directory remembered, what
\* ConfigDir() would return, and whether something was at the path
\* GetFilepath() names
Call(op, dir, err, exists, subdirs, es) ==
    [op |-> op, dir |-> dir, err |-> err, exists |-> exists,
     subdirs |-> subdirs, errs |-> es,
     provider |-> ConfigDir(TheStore.dirType, TheStore.configSlug,
                            TheStore.dirsProvider),
     dp |-> TheStore.dirsProvider,
     fresh |-> TheStore.configDir = EmptyPath,
     configDir |-> [dir |-> configStore_ConfigDir(TheStore).dir,
                    err |-> configStore_ConfigDir(TheStore).err],
     present |-> /\ GetFilepath(TheStore).err = NoErr
                 /\ GetFilepath(TheStore).fp \in DOMAIN fsys]

\* dir, err := cs.ConfigDir()
DirConfigDir ==
    /\ ops < MaxDirOps
    /\ \E r \in {configStore_ConfigDir(TheStore)} :
           /\ StoreMap' = [StoreMap EXCEPT ![TheKind] = r.cs]
           /\ ret' = [op |-> "ConfigDir", prc |-> NilPtr, err |-> r.err,
                       dir |-> r.dir]
           /\ log' = Append(log, Call("ConfigDir", r.dir, r.err, FALSE, <<>>, <<>>))
    /\ ops' = ops + 1
    /\ UNCHANGED <<logger, openFiles, goos, normalizeMode, mergeMode, fsys, DirTypes, pc, args,
                   pending, rcMap, errs, acc, outcome>>

\* cs.SetConfigDir(dir)
DirSetConfigDir(dir) ==
    /\ ops < MaxDirOps
    /\ StoreMap' = [StoreMap EXCEPT ![TheKind] = SetConfigDir(TheStore, dir)]
    /\ ret' = [op |-> "SetConfigDir", prc |-> NilPtr, err |-> NoErr, dir |-> dir]
    /\ log' = Append(log, Call("SetConfigDir", dir, NoErr, FALSE, <<>>, <<>>))
    /\ ops' = ops + 1
    /\ UNCHANGED <<logger, openFiles, goos, normalizeMode, mergeMode, fsys, DirTypes, pc, args,
                   pending, rcMap, errs, acc, outcome>>

\* the functions of the store's provider answer differently from now on
\* (another working directory, another home, a lookup that fails)
DirProviderChanges(dp) ==
    /\ ops < MaxDirOps
    /\ dp # TheStore.dirsProvider
    /\ StoreMap' = [StoreMap EXCEPT ![TheKind].dirsProvider = dp]
    /\ log' = Append(log, Call("ProviderChanges", EmptyPath, NoErr, FALSE, <<>>, <<>>))
    /\ ops' = ops + 1
    /\ UNCHANGED <<logger, openFiles, goos, normalizeMode, mergeMode, fsys, DirTypes, pc, args,
                   pending, rcMap, errs, acc, ret, outcome>>

\* cs.Exists()
DirExists ==
    /\ ops < MaxDirOps
    /\ \E r \in {Exists(TheStore, fsys)} :
           /\ StoreMap' = [StoreMap EXCEPT ![TheKind] = r.cs]
           /\ ret' = [op |-> "Exists", prc |-> NilPtr, err |-> NoErr,
                       exists |-> r.exists]
           /\ log' = Append(log, Call("Exists", EmptyPath, NoErr, r.exists, <<>>, <<>>))
    /\ ops' = ops + 1
    /\ UNCHANGED <<logger, openFiles, goos, normalizeMode, mergeMode, fsys, DirTypes, pc, args,
                   pending, rcMap, errs, acc, outcome>>

\* cs.EnsureDirs(subdirs)
DirEnsureDirs(subdirs) ==
    /\ ops < MaxDirOps
    /\ \E r \in {EnsureDirs(TheStore, fsys, subdirs)} :
           /\ StoreMap' = [StoreMap EXCEPT ![TheKind] = r.cs]
           /\ fsys' = r.fsx
           /\ ret' = [op |-> "EnsureDirs", prc |-> NilPtr, err |-> r.err,
                       subdirs |-> subdirs, errs |-> r.errs]
           /\ log' = Append(log, Call("EnsureDirs", EmptyPath, r.err, FALSE,
                                      subdirs, r.errs))
    /\ ops' = ops + 1
    /\ UNCHANGED <<logger, openFiles, goos, normalizeMode, mergeMode, DirTypes, pc, args, pending,
                   rcMap, errs, acc, outcome>>

NextDir ==
    \/ DirConfigDir
    \/ \E dir \in OverrideDirs : DirSetConfigDir(dir)
    \/ \E dp \in ChangedProviders : DirProviderChanges(dp)
    \/ DirExists
    \/ \E subdirs \in SubdirLists : DirEnsureDirs(subdirs)

SpecDir == InitDir /\ [][NextDir]_vars

\* ------------------------------------------------------------------------
\* A store set from its construction on: NewConfigStores called once with
\* some ConfigStoresArgs, then the accessors in any order
\* ------------------------------------------------------------------------
MaxSetOps == 3

\* the kind lists passed to NewConfigStores
SetKindLists == KindLists \cup {<<CLIConfigDirType, CLIConfigDirType>>}

\* the values of ConfigStoresArgs: the embedded ConfigStoreArgs with its
\* DirsProvider field, the DirTypes field and the DirsProvider field of
\* ConfigStoresArgs itself
SetArgs ==
    { [DirTypes |-> list,
       ConfigStoreArgs |-> [ConfigSlug |-> ConfigSlug, RelFilepath |-> rel,
                            DirsProvider |-> inner],
       DirsProvider |-> outer] :
        list \in SetKindLists, rel \in StoreRelFilepaths,
        inner \in StoreProviders,
        outer \in StoreProviders \cup {FailingDirsProvider} }

\* no set has been built
NoStores == [DirTypes |-> <<>>, StoreMap |-> <<>>]

InitSet ==
    /\ goos \in GoosValues
    /\ normalizeMode = "noop"
    /\ mergeMode = "new"
    /\ DirTypes = NoStores.DirTypes
    /\ StoreMap = NoStores.StoreMap
    /\ fsys = BaseFS
    /\ pc = "idle"
    /\ args = NoArgs
    /\ pending = {}
    /\ rcMap = [k \in AllKinds |-> NilPtr]
    /\ errs = <<>>
    /\ acc = NoAcc
    /\ ret = NoRet
    /\ log = <<>>
    /\ outcome = [k \in AllKinds |-> "unvisited"]
    /\ ops = 0
    /\ logger = "slog"
    /\ openFiles = {}

\* the set of the state
TheStores == [DirTypes |-> DirTypes, StoreMap |-> StoreMap]

\* css := NewConfigStores(a)
SetNewConfigStores(a) ==
    /\ ops < MaxSetOps
    /\ args = NoArgs
    /\ \E css \in {NewConfigStores(a)} :
           /\ DirTypes' = css.DirTypes
           /\ StoreMap' = css.StoreMap
    /\ args' = a
    /\ ret' = [op |-> "NewConfigStores", prc |-> NilPtr, err |-> NoErr]
    /\ ops' = ops + 1
    /\ UNCHANGED <<logger, openFiles, goos, normalizeMode, mergeMode, fsys, pc, pending, rcMap,
                   errs, acc, log, outcome>>

\* css.AppConfigStore()
SetAppConfigStore ==
    /\ ops < MaxSetOps
    /\ args # NoArgs
    /\ ret' = [op |-> "AppConfigStore", prc |-> NilPtr, err |-> NoErr,
               store |-> AppConfigStore(TheStores)]
    /\ ops' = ops + 1
    /\ UNCHANGED <<logger, openFiles, goos, normalizeMode, mergeMode, fsys, DirTypes, StoreMap, pc,
                   args, pending, rcMap, errs, acc, log, outcome>>

\* css.CLIConfigStore()
SetCLIConfigStore ==
    /\ ops < MaxSetOps
    /\ args # NoArgs
    /\ ret' = [op |-> "CLIConfigStore", prc |-> NilPtr, err |-> NoErr,
               store |-> CLIConfigStore(TheStores)]
    /\ ops' = ops + 1
    /\ UNCHANGED <<logger, openFiles, goos, normalizeMode, mergeMode, fsys, DirTypes, StoreMap, pc,
                   args, pending, rcMap, errs, acc, log, outcome>>

\* css.ProjectConfigStore()
SetProjectConfigStore ==
    /\ ops < MaxSetOps
    /\ args # NoArgs
    /\ ret' = [op |-> "ProjectConfigStore", prc |-> NilPtr, err |-> NoErr,
               store |-> ProjectConfigStore(TheStores)]
    /\ ops' = ops + 1
    /\ UNCHANGED <<logger, openFiles, goos, normalizeMode, mergeMode, fsys, DirTypes, StoreMap, pc,
                   args, pending, rcMap, errs, acc, log, outcome>>

NextSet ==
    \/ \E a \in SetArgs : SetNewConfigStores(a)
    \/ SetAppConfigStore
    \/ SetCLIConfigStore
    \/ SetProjectConfigStore

SpecSet == InitSet /\ [][NextSet]_vars

\* ------------------------------------------------------------------------
\* Save and the package-level logger: Save called on one store, with or
\* without SetLogger having been called, on a device whose writes and closes
\* may fail; log holds one record per call
\* ------------------------------------------------------------------------
MaxSaveOps == 2

Loggers == {"nil", "slog"}

\* what file.Write may return
WriteErrs == {NoErr, <<"write", "ENOSPC">>}

\* what file.Close may return
CloseErrs == {NoErr, <<"close", "EIO">>}

InitSave ==
    /\ goos \in GoosValues
    /\ normalizeMode = "noop"
    /\ mergeMode = "new"
    /\ \E kind \in AllKinds, rel \in StoreRelFilepaths, dp \in StoreProviders :
          LET cs == NewConfigStore(kind, [ConfigSlug |-> ConfigSlug,
                                          RelFilepath |-> rel,
                                          DirsProvider |-> dp])
          IN  /\ DirTypes = <<kind>>
              /\ StoreMap = [k \in {kind} |-> cs]
              /\ \E st \in StoreFileStates : fsys = StoreInitialFS(cs, st)
    /\ pc = "idle"
    /\ args = NoArgs
    /\ pending = {}
    /\ rcMap = [k \in AllKinds |-> NilPtr]
    /\ errs = <<>>
    /\ acc = NoAcc
    /\ ret = NoRet
    /\ log = <<>>
    /\ outcome = [k \in AllKinds |-> "unvisited"]
    /\ ops = 0
    /\ logger \in Loggers
    /\ openFiles = {}

\* cfgstore.SetLogger(l)
SaveSetLogger(l) ==
    /\ ops < MaxSaveOps
    /\ l # logger
    /\ logger' = SetLogger(l)
    /\ log' = Append(log, [op |-> "SetLogger"])
    /\ ops' = ops + 1
    /\ UNCHANGED <<openFiles, goos, normalizeMode, mergeMode, fsys, DirTypes,
                   StoreMap, pc, args, pending, rcMap, errs, acc, ret, outcome>>

\* err := cs.Save(data)
SaveSave(data, writeErr, closeErr) ==
    /\ ops < MaxSaveOps
    /\ \E r \in {SaveIO(TheStore, fsys, data, writeErr, closeErr)} :
           /\ StoreMap' = [StoreMap EXCEPT ![TheKind] = r.cs]
           /\ fsys' = r.fsx
           /\ openFiles' = IF r.opened /\ ~r.closed
                           THEN openFiles \cup {GetFilepath(r.cs).fp}
                           ELSE openFiles
           /\ ret' = [op |-> "Save", prc |-> NilPtr, err |-> r.err,
                       panicked |-> r.panicked]
           /\ log' = Append(log, [op |-> "Save", data |-> data,
                                   writeErr |-> writeErr, closeErr |-> closeErr,
                                   err |-> r.err, opened |-> r.opened,
                                   closed |-> r.closed, logged |-> r.logged,
                                   panicked |-> r.panicked])
    /\ ops' = ops + 1
    /\ UNCHANGED <<logger, goos, normalizeMode, mergeMode, DirTypes, pc, args,
                   pending, rcMap, errs, acc, outcome>>

NextSave ==
    \/ \E l \in Loggers : SaveSetLogger(l)
    \/ \E data \in SavedBytes, writeErr \in WriteErrs, closeErr \in CloseErrs :
           SaveSave(data, writeErr, closeErr)

SpecSave == InitSave /\ [][NextSave]_vars

\* ------------------------------------------------------------------------
\* LoadRootConfig called with arguments of the caller's choosing: the kind
\* list of RootConfigArgs is a field of its own, which the caller may leave
\* empty or fill with a list that is not the list the set was built with
\* ------------------------------------------------------------------------
LoadNormalizeModes == {"noop", "defaults"}

LoadFileStates ==
    { [kind |-> "missing", data |-> <<>>],
      [kind |-> "file", data |-> Marshal([Theme |-> "light", Debug |-> FALSE])],
      [kind |-> "file", data |-> Marshal([Theme |-> "", Debug |-> TRUE])] }

LoadInitialFileStates(kinds) ==
    { st \in [AllKinds -> LoadFileStates] :
        \A k \in AllKinds : k \notin kinds => st[k].kind = "missing" }

\* the kind lists a caller passes in RootConfigArgs.DirTypes
ArgsKindLists ==
    { <<>>,
      <<ProjectConfigDirType>>,
      <<ProjectConfigDirType, CLIConfigDirType>>,
      <<CLIConfigDirType, CLIConfigDirType>>,
      <<AppConfigDirType, CLIConfigDirType, ProjectConfigDirType>> }

\* the providers a caller passes in RootConfigArgs.DirsProvider
ArgsProviders == {NilProvider, MovedDirsProvider}

AnyLoadArgs ==
    { [DirTypes |-> l, DirsProvider |-> dp] : l \in ArgsKindLists, dp \in ArgsProviders }

InitLoad ==
    /\ goos = "linux"
    /\ normalizeMode \in LoadNormalizeModes
    /\ mergeMode \in MergeModes
    /\ \E list \in KindLists, dp \in StoreProviders :
          \E css \in {NewConfigStores(
                        [DirTypes |-> list,
                         ConfigStoreArgs |-> [ConfigSlug |-> ConfigSlug,
                                              RelFilepath |-> ConfigFile,
                                              DirsProvider |-> dp]])} :
              /\ DirTypes = css.DirTypes
              /\ StoreMap = css.StoreMap
              /\ \E st \in LoadInitialFileStates(SeqRange(css.DirTypes)) :
                    fsys = InitialFS(SeqRange(css.DirTypes), dp, st)
    /\ pc = "idle"
    /\ args = NoArgs
    /\ pending = {}
    /\ rcMap = [k \in AllKinds |-> NilPtr]
    /\ errs = <<>>
    /\ acc = NoAcc
    /\ ret = NoRet
    /\ log = <<>>
    /\ outcome = [k \in AllKinds |-> "unvisited"]
    /\ ops = 0
    /\ logger = "slog"
    /\ openFiles = {}

NextLoad ==
    \/ \E a \in AnyLoadArgs : LoadRootConfigBegin(a)
    \/ \E k \in AllKinds : GatherStore(k)
    \/ GatherEnd
    \/ MergeStart
    \/ MergeStep
    \/ MergeEnd

SpecLoad == InitLoad /\ [][NextLoad]_vars

\* ------------------------------------------------------------------------
\* One store and the calls that move or copy it: ConfigDir, SetConfigDir,
\* SetRelFilepath, Exists, Load, Save and WithDirType in any order, and the
\* package-level ProjectConfigStoreExists; ret holds the last call's results
\* ------------------------------------------------------------------------
MaxViewOps == 3

\* (cs *configStore) SetRelFilepath(rf)
SetRelFilepath(cs, rf) == [cs EXCEPT !.relFilepath = rf]

\* (cs *configStore) WithDirType(dt): a copy of the whole struct, the
\* memoized directory and the cached view included, with the kind replaced
WithDirType(cs, dirType) == [cs EXCEPT !.dirType = dirType]

\* ProjectConfigStoreExists(projectDir, configSlug, configFile)
ProjectConfigStoreExists(fsx, projectDir, configSlug, configFile) ==
    Exists(SetConfigDir(NewProjectConfigStore(configSlug, configFile), projectDir),
           fsx).exists

\* the arguments of SetRelFilepath
ViewRelFilepaths == {ConfigFile, <<"alt.json">>}

\* the bytes Save is called with
ViewBytes == {Marshal([Theme |-> "light", Debug |-> TRUE])}

\* the project directories asked about
ProjectDirs == {<<"proj">>, <<"work">>}

\* what a project directory holds to begin with: nothing, the file of a
\* project store (<dir>/.<slug>/<file>), a file of that name directly in the
\* directory, or both
ProjectLayouts == {"none", "store", "beside", "both"}

ProjectLayoutFS(layout) ==
    Bind({ [p \in inside \cup beside \cup { DirPathJoin(d, DotSlug(ConfigSlug)) :
                                              d \in { x \in ProjectDirs : inside # {} } } |->
              IF p \in inside \cup beside
              THEN FileNode(Marshal([Theme |-> "dark", Debug |-> FALSE]))
              ELSE DirNode] :
             inside \in {IF layout \in {"store", "both"}
                         THEN { FilepathJoin(DirPathJoin(d, DotSlug(ConfigSlug)), ConfigFile) :
                                  d \in ProjectDirs }
                         ELSE {}},
             beside \in {IF layout \in {"beside", "both"}
                         THEN { FilepathJoin(d, ConfigFile) : d \in ProjectDirs }
                         ELSE {}} })

InitView ==
    /\ goos \in GoosValues
    /\ normalizeMode = "noop"
    /\ mergeMode = "new"
    /\ \E kind \in AllKinds, dp \in StoreProviders :
          \E cs \in {NewConfigStore(kind, [ConfigSlug |-> ConfigSlug,
                                           RelFilepath |-> ConfigFile,
                                           DirsProvider |-> dp])} :
              /\ DirTypes = <<kind>>
              /\ StoreMap = [k \in {kind} |-> cs]
              /\ \E layout \in ProjectLayouts : fsys = ProjectLayoutFS(layout) @@ BaseFS
    /\ pc = "idle"
    /\ args = NoArgs
    /\ pending = {}
    /\ rcMap = [k \in AllKinds |-> NilPtr]
    /\ errs = <<>>
    /\ acc = NoAcc
    /\ ret = NoRet
    /\ log = <<>>
    /\ outcome = [k \in AllKinds |-> "unvisited"]
    /\ ops = 0
    /\ logger = "slog"
    /\ openFiles = {}

\* dir, err := cs.ConfigDir()
ViewConfigDir ==
    /\ ops < MaxViewOps
    /\ \E r \in {configStore_ConfigDir(TheStore)} :
           /\ StoreMap' = [StoreMap EXCEPT ![TheKind] = r.cs]
           /\ ret' = [op |-> "ConfigDir", prc |-> NilPtr, err |-> r.err, dir |-> r.dir]
    /\ ops' = ops + 1
    /\ UNCHANGED <<logger, openFiles, goos, normalizeMode, mergeMode, fsys, DirTypes, pc, args,
                   pending, rcMap, errs, acc, log, outcome>>

\* cs.SetConfigDir(dir)
ViewSetConfigDir(dir) ==
    /\ ops < MaxViewOps
    /\ StoreMap' = [StoreMap EXCEPT ![TheKind] = SetConfigDir(TheStore, dir)]
    /\ ret' = [op |-> "SetConfigDir", prc |-> NilPtr, err |-> NoErr, dir |-> dir]
    /\ ops' = ops + 1
    /\ UNCHANGED <<logger, openFiles, goos, normalizeMode, mergeMode, fsys, DirTypes, pc, args,
                   pending, rcMap, errs, acc, log, outcome>>

\* cs.SetRelFilepath(rf)
ViewSetRelFilepath(rf) ==
    /\ ops < MaxViewOps
    /\ StoreMap' = [StoreMap EXCEPT ![TheKind] = SetRelFilepath(TheStore, rf)]
    /\ ret' = [op |-> "SetRelFilepath", prc |-> NilPtr, err |-> NoErr, rel |-> rf]
    /\ ops' = ops + 1
    /\ UNCHANGED <<logger, openFiles, goos, normalizeMode, mergeMode, fsys, DirTypes, pc, args,
                   pending, rcMap, errs, acc, log, outcome>>

\* cs.Exists()
ViewExists ==
    /\ ops < MaxViewOps
    /\ \E r \in {Exists(TheStore, fsys)} :
           /\ StoreMap' = [StoreMap EXCEPT ![TheKind] = r.cs]
           /\ ret' = [op |-> "Exists", prc |-> NilPtr, err |-> NoErr,
                       exists |-> r.exists]
    /\ ops' = ops + 1
    /\ UNCHANGED <<logger, openFiles, goos, normalizeMode, mergeMode, fsys, DirTypes, pc, args,
                   pending, rcMap, errs, acc, log, outcome>>

\* data, err := cs.Load()
ViewLoad ==
    /\ ops < MaxViewOps
    /\ \E r \in {Load(TheStore, fsys)} :
           /\ StoreMap' = [StoreMap EXCEPT ![TheKind] = r.cs]
           /\ ret' = [op |-> "Load", prc |-> NilPtr, err |-> r.err, data |-> r.data]
    /\ ops' = ops + 1
    /\ UNCHANGED <<logger, openFiles, goos, normalizeMode, mergeMode, fsys, DirTypes, pc, args,
                   pending, rcMap, errs, acc, log, outcome>>

\* cs.Save(data)
ViewSave(data) ==
    /\ ops < MaxViewOps
    /\ \E r \in {Save(TheStore, fsys, data)} :
           /\ StoreMap' = [StoreMap EXCEPT ![TheKind] = r.cs]
           /\ fsys' = r.fsx
           /\ ret' = [op |-> "Save", prc |-> NilPtr, err |-> r.err, data |-> data]
    /\ ops' = ops + 1
    /\ UNCHANGED <<logger, openFiles, goos, normalizeMode, mergeMode, DirTypes, pc, args, pending,
                   rcMap, errs, acc, log, outcome>>

\* store := cs.WithDirType(k): ret holds the new store and the receiver as
\* it was when the call was made
ViewWithDirType(k) ==
    /\ ops < MaxViewOps
    /\ ret' = [op |-> "WithDirType", prc |-> NilPtr, err |-> NoErr, dirType |-> k,
               store |-> WithDirType(TheStore, k), recv |-> TheStore]
    /\ ops' = ops + 1
    /\ UNCHANGED <<logger, openFiles, goos, normalizeMode, mergeMode, fsys, DirTypes, StoreMap,
                   pc, args, pending, rcMap, errs, acc, log, outcome>>

\* exists := ProjectConfigStoreExists(projectDir, slug, file)
ViewProjectConfigStoreExists(projectDir) ==
    /\ ops < MaxViewOps
    /\ ret' = [op |-> "ProjectConfigStoreExists", prc |-> NilPtr, err |-> NoErr,
               projectDir |-> projectDir,
               exists |-> ProjectConfigStoreExists(fsys, projectDir, ConfigSlug,
                                                   ConfigFile)]
    /\ ops' = ops + 1
    /\ UNCHANGED <<logger, openFiles, goos, normalizeMode, mergeMode, fsys, DirTypes, StoreMap,
                   pc, args, pending, rcMap, errs, acc, log, outcome>>

NextView ==
    \/ ViewConfigDir
    \/ \E dir \in OverrideDirs : ViewSetConfigDir(dir)
    \/ \E rf \in ViewRelFilepaths : ViewSetRelFilepath(rf)
    \/ ViewExists
    \/ ViewLoad
    \/ \E data \in ViewBytes : ViewSave(data)
    \/ \E k \in AllKinds : ViewWithDirType(k)
    \/ \E p \in ProjectDirs : ViewProjectConfigStoreExists(p)

SpecView == InitView /\ [][NextView]_vars

\* ------------------------------------------------------------------------
\* Properties
\* ------------------------------------------------------------------------
\* LoadRootConfig has returned
Loaded == pc = "idle" /\ ret.op = "LoadRootConfig"

\* the stores of the set that contributed a value
Contributing == { k \in DOMAIN StoreMap : outcome[k] \in {"loaded", "created"} }

\* C1: when two or more stores contribute, LoadRootConfig returns the final
\* accumulated value of the fold, i.e. what the last Merge call returned,
\* whatever the Merge implementation does to its receiver.
C1_ReturnsAccumulatedValue ==
    (Loaded /\ ret.err = NoErr /\ Cardinality(Contributing) >= 2)
        => (~ret.prc.nil /\ ret.prc.val = log[Len(log)].returned)

\* the stores of the set whose load or creation failed
Failed == { k \in DOMAIN StoreMap : outcome[k] = "failed" }

IsContributing(k) == k \in Contributing

\* the contributing kinds in the order of the precedence list
ContribSeq == SelectSeq(args.DirTypes, IsContributing)

\* what the file of store k holds, deserialized
FileValue(k) ==
    Unmarshal(fsys[GetFilepath(StoreMap[k]).fp].data, ZeroValue).val

\* the value store k contributes: its file's content, normalized
Contribution(k) == Normalize(FileValue(k)).val

\* C2: the merge phase walks the precedence list in order: the first
\* contributing value starts the accumulator, every later contributing value
\* is the receiver of one Merge call whose argument is the accumulator so far,
\* absent kinds are skipped, and Merge is called (#contributing - 1) times.
C2_MergeOrder ==
    (Loaded /\ ret.err = NoErr) =>
        /\ Len(ContribSeq) >= 1
        /\ Len(log) = Len(ContribSeq) - 1
        /\ \A j \in 1..Len(log) :
              /\ log[j].dirType = ContribSeq[j + 1]
              /\ log[j].recv = Contribution(ContribSeq[j + 1])
              /\ log[j].arg = IF j = 1 THEN Contribution(ContribSeq[1])
                              ELSE log[j - 1].returned

\* a load over three kinds in which all three contributed different values
C2_Witness ==
    /\ Loaded /\ ret.err = NoErr
    /\ Len(log) = 2
    /\ log[1].recv # log[1].arg
    /\ log[2].recv # log[2].arg
    /\ log[2].arg # log[1].arg

\* C3: when exactly one store contributes, LoadRootConfig returns that
\* store's loaded-and-normalized value unchanged and Merge is never called.
C3_SingleContribution ==
    (Loaded /\ Failed = {} /\ Cardinality(Contributing) = 1) =>
        /\ ret.err = NoErr
        /\ ret.prc = Ptr(Contribution(ContribSeq[1]))
        /\ log = <<>>

\* the CLI store alone contributed a non-zero value, the project was absent
C3_Witness ==
    /\ Loaded /\ ret.err = NoErr
    /\ Contributing = {CLIConfigDirType}
    /\ outcome[ProjectConfigDirType] = "absent"
    /\ ~IsZero(ret.prc.val)
    /\ log = <<>>

\* C4: when no store contributes (every kind of the set is a project kind
\* whose file is absent) LoadRootConfig fails with
\* ErrNotValidConfigDirsAvailable and returns no value.
C4_NoContribution ==
    (Loaded /\ Failed = {} /\ Contributing = {}) =>
        /\ Is(ret.err, "ErrNotValidConfigDirsAvailable")
        /\ ret.prc.nil
        /\ log = <<>>

\* a set of the project kind only, whose file is absent, has been loaded
C4_Witness ==
    /\ Loaded
    /\ DOMAIN StoreMap = {ProjectConfigDirType}
    /\ outcome[ProjectConfigDirType] = "absent"
    /\ Is(ret.err, "ErrNotValidConfigDirsAvailable")

\* C5: the gather phase does not short-circuit: when a store fails every
\* other store of the set is still attempted, and when at least one store
\* failed LoadRootConfig returns one aggregate error with an entry per failed
\* store, no value, and never calls Merge.
C5_NoShortCircuit ==
    (Loaded /\ Failed # {}) =>
        /\ \A k \in DOMAIN StoreMap : outcome[k] # "unvisited"
        /\ Is(ret.err, "CombinedErrs")
        /\ Is(ret.err, "ErrFailedToEnsureConfig")
        /\ Len(errs) = Cardinality(Failed)
        /\ ret.prc.nil
        /\ log = <<>>

\* one store failed, another one was still loaded, and the call failed
C5_Witness ==
    /\ Loaded
    /\ Cardinality(Failed) = 1
    /\ Contributing # {}
    /\ ret.err # NoErr

\* what went wrong for store k, read off the providers and the file system:
\* its directory cannot be resolved, its file cannot be read, deserialized or
\* normalized, or the file it had to create is not there
StoreFails(k) ==
    LET g == GetFilepath(StoreMap[k])
        there == g.fp \in DOMAIN fsys
        u == Unmarshal(fsys[g.fp].data, ZeroValue)
    IN  \/ g.err # NoErr
        \/ /\ g.err = NoErr /\ there
           /\ \/ fsys[g.fp].isDir
              \/ u.err # NoErr
              \/ Normalize(u.val).err # NoErr
        \/ /\ g.err = NoErr /\ ~there
           /\ k # ProjectConfigDirType

FailingStores == { k \in DOMAIN StoreMap : StoreFails(k) }

\* C6: LoadRootConfig never silently drops a failing store: for every store
\* of the set, the project kind included, a failure of its directory
\* resolution, read, deserialization, normalization or persist makes the call
\* fail, and the failure is an entry of the aggregate error.
C6_NeverDropsFailure ==
    Loaded =>
        /\ FailingStores # {} => Is(ret.err, "ErrFailedToEnsureConfig")
        /\ Len(errs) >= Cardinality(FailingStores)

\* the file path of store k, and whether it could be resolved
StorePath(k) == GetFilepath(StoreMap[k])

\* store k is about to be visited and nothing is at its file path
FileMissing(k) == StorePath(k).err = NoErr /\ StorePath(k).fp \notin DOMAIN fsys

\* this step is the gather loop's visit of store k
Visits(k) == pc = "gather" /\ k \in pending /\ k \notin pending'

\* C7: a project store whose file is missing is recorded as absent: no error
\* entry, no value contributed, and nothing written to the file system.
C7_ProjectAbsent ==
    [][ (Visits(ProjectConfigDirType) /\ FileMissing(ProjectConfigDirType)) =>
            /\ outcome'[ProjectConfigDirType] = "absent"
            /\ errs' = errs
            /\ rcMap'[ProjectConfigDirType].nil
            /\ fsys' = fsys ]_vars

\* the CLI file was there and the project file was not: the load returned the
\* CLI content and the project file still does not exist
C7_Witness ==
    /\ Loaded /\ ret.err = NoErr
    /\ outcome[CLIConfigDirType] = "loaded"
    /\ outcome[ProjectConfigDirType] = "absent"
    /\ FileMissing(ProjectConfigDirType)
    /\ ret.prc = Ptr(FileValue(CLIConfigDirType))
    /\ ~IsZero(ret.prc.val)

\* the value store k contributed when it was gathered: Merge may since have
\* updated the receiver it was called on
GatheredValue(k) ==
    IF \E j \in 1..Len(log) : log[j].dirType = k
    THEN log[CHOOSE j \in 1..Len(log) : log[j].dirType = k].recv
    ELSE rcMap[k].val

NonProjectStores == (DOMAIN StoreMap) \ {ProjectConfigDirType}

\* the visit of a non-project store whose file is missing creates the file
\* from a normalized empty value and contributes that value; it fails only
\* when the normalization or the write fails
CreatesWithDefaults(k) ==
    (Visits(k) /\ FileMissing(k)) =>
        LET n == Normalize(ZeroValue)
            fp == StorePath(k).fp
            writable == MkdirAll(fsys, PathDir(fp)).err = NoErr
        IN  IF n.err = NoErr /\ writable
            THEN /\ outcome'[k] = "created"
                 /\ rcMap'[k] = Ptr(n.val)
                 /\ fp \in DOMAIN fsys'
                 /\ fsys'[fp] = FileNode(Marshal(n.val))
                 /\ errs' = errs
            ELSE /\ outcome'[k] = "failed"
                 /\ rcMap'[k].nil
                 /\ Len(errs') = Len(errs) + 1
                 /\ fp \notin DOMAIN fsys'

\* C8 as stated: after a successful load the file of every non-project store
\* exists and holds the serialization of the store's contribution.
C8_FileHoldsContribution ==
    (Loaded /\ ret.err = NoErr) =>
        \A k \in NonProjectStores :
            /\ IsFileAt(fsys, StorePath(k).fp)
            /\ fsys[StorePath(k).fp].data = Marshal(GatheredValue(k))

\* C8: a non-project store whose file is missing is created with defaults
\* (empty value, normalized, persisted, contributed); after a successful load
\* the file of every non-project store exists, its content normalizes to the
\* store's contribution, and it is the serialization of the contribution for
\* the stores that were created.
C8_CreateWithDefaults ==
    /\ [][ \A k \in NonProjectStores : CreatesWithDefaults(k) ]_vars
    /\ [] ( (Loaded /\ ret.err = NoErr) =>
              \A k \in NonProjectStores :
                  /\ IsFileAt(fsys, StorePath(k).fp)
                  /\ Normalize(FileValue(k)).val = GatheredValue(k)
                  /\ outcome[k] = "created" =>
                        fsys[StorePath(k).fp].data = Marshal(GatheredValue(k)) )

\* a load succeeded in which one store was created with a non-zero default
\* and another kept a file whose content differs from what it contributed
C8_Witness ==
    /\ Loaded /\ ret.err = NoErr
    /\ \E k \in NonProjectStores :
          /\ outcome[k] = "created"
          /\ ~IsZero(GatheredValue(k))
          /\ fsys[StorePath(k).fp].data = Marshal(GatheredValue(k))
    /\ \E k \in NonProjectStores :
          /\ outcome[k] = "loaded"
          /\ fsys[StorePath(k).fp].data # Marshal(GatheredValue(k))

\* where InitProjectConfig puts the project file
InitFilepath == GetFilepath(NewProjectConfigStore(ConfigSlug, ConfigFile)).fp

\* this step is a call of InitProjectConfig
InitStep == pc = "idle" /\ pc' = "idle" /\ ops' = ops + 1

\* C9: InitProjectConfig on a project whose file already exists returns
\* ErrConfigAlreadyExists and leaves the file system as it was; when the file
\* does not exist it normalizes an empty value and persists it, returning it,
\* and fails without a file only when the normalization or the write fails.
C9_InitProjectConfig ==
    [][ InitStep =>
          LET fp == InitFilepath
              n == Normalize(ZeroValue)
              writable == MkdirAll(fsys, PathDir(fp)).err = NoErr
          IN  /\ ret'.op = "InitProjectConfig"
              /\ IF fp \in DOMAIN fsys
                 THEN /\ Is(ret'.err, "ErrConfigAlreadyExists")
                      /\ fsys' = fsys
                 ELSE /\ ~Is(ret'.err, "ErrConfigAlreadyExists")
                      /\ IF n.err = NoErr /\ writable
                         THEN /\ ret'.err = NoErr
                              /\ ret'.prc = Ptr(n.val)
                              /\ fp \in DOMAIN fsys'
                              /\ fsys'[fp] = FileNode(Marshal(n.val))
                         ELSE /\ ret'.err # NoErr
                              /\ fp \notin DOMAIN fsys' ]_vars

\* InitProjectConfig was refused on a project whose file holds a value, and
\* the file still holds it
C9_Witness ==
    /\ ret.op = "InitProjectConfig"
    /\ Is(ret.err, "ErrConfigAlreadyExists")
    /\ IsFileAt(fsys, InitFilepath)
    /\ fsys[InitFilepath].data = Marshal([Theme |-> "dark", Debug |-> FALSE])

\* the last successful save of the store, if there was one
LastSave == log[1]

\* C10: after SaveJSON(v) succeeds (also into subdirectories that did not
\* exist, also over an older file) Exists() reports true and LoadJSON into a
\* zero value yields v; Load returns the bytes of the last successful Save.
C10_RoundTrip ==
    LastSave.saved =>
        /\ Exists(TheStore, fsys).exists
        /\ Load(TheStore, fsys).err = NoErr
        /\ Load(TheStore, fsys).data = LastSave.data
        /\ LastSave.json =>
              /\ LoadJSON(TheStore, fsys, ZeroValue).err = NoErr
              /\ LoadJSON(TheStore, fsys, ZeroValue).val = LastSave.val
        /\ (ret.op = "Exists") => ret.exists
        /\ (ret.op = "Load") => (ret.err = NoErr /\ ret.data = LastSave.data)
        /\ (ret.op = "LoadJSON" /\ LastSave.json) =>
              (ret.err = NoErr /\ ret.prc = Ptr(LastSave.val))

\* a value was saved under a subdirectory over nothing, a later save failed
\* or not, and LoadJSON gave the value back
C10_Witness ==
    /\ LastSave.saved /\ LastSave.json
    /\ ~IsZero(LastSave.val)
    /\ Len(TheStore.relFilepath) = 2
    /\ ret.op = "LoadJSON"
    /\ ret.err = NoErr
    /\ ret.prc = Ptr(LastSave.val)

\* nothing was ever created at the store's file path, and no file stands
\* where one of its directories would be
FileNeverCreated ==
    /\ StorePath(TheKind).err = NoErr
    /\ StorePath(TheKind).fp \notin DOMAIN fsys
    /\ \A q \in ProperPrefixes(StorePath(TheKind).fp) : ~IsFileAt(fsys, q)

\* C11 (as stated): Load() on a store whose file was never created returns
\* an error identifiable as ErrFileDoesNotExist and identifiable neither as
\* ErrFailedToReadFile nor as the deserialization error.
C11_NotFoundOnly ==
    (ret.op = "Load" /\ FileNeverCreated) =>
        /\ Is(ret.err, "ErrFileDoesNotExist")
        /\ ~Is(ret.err, "ErrFailedToReadFile")
        /\ ~Is(ret.err, "ErrFailedToUnmarshalConfigFile")

\* C11 (amended): Load() on a store whose file was never created returns an
\* error identifiable as ErrFileDoesNotExist, which no other failure of Load
\* is; that error is also identifiable as ErrFailedToReadFile, like every
\* other read failure, and never as the deserialization error.
C11_NotFoundDistinguished ==
    ret.op = "Load" =>
        /\ FileNeverCreated =>
              /\ Is(ret.err, "ErrFileDoesNotExist")
              /\ Is(ret.err, "ErrFailedToReadFile")
        /\ (ret.err # NoErr /\ ~FileNeverCreated) =>
              /\ ~Is(ret.err, "ErrFileDoesNotExist")
              /\ Is(ret.err, "ErrFailedToReadFile")
        /\ ~Is(ret.err, "ErrFailedToUnmarshalConfigFile")

\* Load was called on a store under a subdirectory with nothing on disk
C11_Witness ==
    /\ ret.op = "Load"
    /\ FileNeverCreated
    /\ Len(TheStore.relFilepath) = 2
    /\ Is(ret.err, "ErrFileDoesNotExist")
    /\ ret.data = <<>>

\* the positions of the calls of op in the log
Calls(op) == { i \in 1..Len(log) : log[i].op = op }

\* C12: for every path p, SetConfigDir(p) followed by ConfigDir() returns
\* exactly p and no error, whatever the provider would compute and whether or
\* not the directory had been resolved before.
C12_OverrideReturned ==
    \A i \in Calls("ConfigDir") :
        (i > 1 /\ log[i - 1].op = "SetConfigDir") =>
            /\ log[i].dir = log[i - 1].dir
            /\ log[i].err = NoErr

\* C13: after the first successful ConfigDir() of a store every later
\* ConfigDir() returns the same path and no error, also when the provider's
\* functions would by then answer with another path or an error, as long as
\* SetConfigDir is not called in between.
C13_Memoized ==
    \A i, j \in Calls("ConfigDir") :
        ( /\ i < j
          /\ log[i].err = NoErr
          /\ \A n \in (i + 1)..(j - 1) : log[n].op # "SetConfigDir" ) =>
            /\ log[j].dir = log[i].dir
            /\ log[j].err = NoErr

\* the directory was resolved, the provider's answer for the store's kind
\* then changed (to another path or to an error), and ConfigDir() still
\* returned the first path
C13_Witness ==
    /\ Len(log) = 3
    /\ log[1].op = "ConfigDir" /\ log[1].err = NoErr /\ log[1].fresh
    /\ log[2].op = "ProviderChanges"
    /\ log[3].op = "ConfigDir"
    /\ log[3].provider # log[1].provider
    /\ log[3].provider.err # NoErr
    /\ log[3].dir = log[1].dir
    /\ log[3].err = NoErr

\* what the provider of call i resolves kind k to
ResolvedAt(i, k) == ConfigDir(k, TheStore.configSlug, log[i].dp)

\* the calls of ConfigDir() that had nothing remembered
FreshCalls == { i \in Calls("ConfigDir") : log[i].fresh }

\* every ConfigDir() that had nothing remembered returned what the
\* provider's functions answer for the store's kind and slug
ResolutionIsAFunction ==
    \A i \in FreshCalls :
        /\ log[i].dir = ResolvedAt(i, TheKind).cd
        /\ log[i].err = ResolvedAt(i, TheKind).err

\* C14 (as stated): for a fixed provider and slug the resolution is
\* deterministic per kind, and the kinds AppConfig, CLIConfig and
\* ProjectConfig resolve to three pairwise different directories.
C14_KindsNeverCollide ==
    /\ ResolutionIsAFunction
    /\ \A i \in FreshCalls : \A k \in AllKinds \ {TheKind} :
          (log[i].err = NoErr /\ ResolvedAt(i, k).err = NoErr) =>
              ResolvedAt(i, k).cd # log[i].dir

\* the directories of AppConfig and CLIConfig are both resolved by the
\* provider of call i
BothUserKinds(i) ==
    /\ ResolvedAt(i, AppConfigDirType).err = NoErr
    /\ ResolvedAt(i, CLIConfigDirType).err = NoErr

\* C14 (amended): for a fixed provider and slug the resolution is
\* deterministic per kind; ProjectConfig never resolves to the directory of
\* another kind; AppConfig and CLIConfig resolve to the same directory
\* exactly when the provider's user-config function and its CLI function
\* answer with the same directory.
C14_KindsDistinct ==
    /\ ResolutionIsAFunction
    /\ \A i \in FreshCalls : \A k \in AllKinds \ {TheKind} :
          ( /\ log[i].err = NoErr
            /\ ResolvedAt(i, k).err = NoErr
            /\ ProjectConfigDirType \in {k, TheKind} ) =>
              ResolvedAt(i, k).cd # log[i].dir
    /\ \A i \in FreshCalls :
          (TheKind # ProjectConfigDirType /\ BothUserKinds(i)) =>
              ( ResolvedAt(i, AppConfigDirType).cd = ResolvedAt(i, CLIConfigDirType).cd
                <=> log[i].dp.UserConfigDirFunc.dir = CLIConfigDirFunc(log[i].dp).dir )

\* a CLIConfig store of the cstest provider on linux resolved its directory
\* to the directory the same provider gives the AppConfig kind
C14_Witness ==
    /\ goos = "linux"
    /\ TheKind = CLIConfigDirType
    /\ Len(log) >= 1 /\ log[1].op = "ConfigDir" /\ log[1].fresh
    /\ log[1].dp = NewTestDirsProvider(TRUE, TRUE)
    /\ log[1].err = NoErr
    /\ log[1].dir = ResolvedAt(1, AppConfigDirType).cd
    /\ log[1].dir # ResolvedAt(1, ProjectConfigDirType).cd

\* C15: a CLIConfig store with the default provider resolves, on linux, to
\* <the OS user-config directory>/<slug>, and on every other platform to
\* <home directory>/.config/<slug>.
C15_CLIDefaultDir ==
    \A i \in FreshCalls :
        (TheKind = CLIConfigDirType /\ log[i].dp = DefaultDirsProvider) =>
            /\ log[i].err = NoErr
            /\ log[i].dir =
                  IF goos = "linux"
                  THEN DirPathJoin(OSUserConfigDir.dir, TheStore.configSlug)
                  ELSE DirPathJoin(DirPathJoin(OSUserHomeDir.dir, DotConfigPathSegment),
                                   TheStore.configSlug)

\* what the provider function consulted for the store's kind answered at
\* call i
Consulted(i) ==
    CASE TheKind = AppConfigDirType -> log[i].dp.UserConfigDirFunc
      [] TheKind = ProjectConfigDirType -> log[i].dp.ProjectDirFunc
      [] TheKind = CLIConfigDirType ->
            IF ~log[i].dp.CLIConfigDirFunc.method THEN log[i].dp.CLIConfigDirFunc
            ELSE IF goos = "linux" THEN log[i].dp.UserConfigDirFunc
                 ELSE log[i].dp.UserHomeDirFunc

\* the DirectoryLookupFailed sentinels that name a lookup of kind k
LookupSentinels(k) ==
    CASE k = AppConfigDirType -> {"ErrFailedGettingUserConfigDir"}
      [] k = ProjectConfigDirType -> {"ErrFailedGettingWorkingDir"}
      [] k = CLIConfigDirType ->
            {"ErrFailedGettingCLIConfigDir", "ErrFailedGettingUserConfigDir",
             "ErrFailedGettingUserHomeDir"}

\* err wraps cause: the chain of cause is the tail of the chain of err
Wraps(err, cause) ==
    /\ Len(err) >= Len(cause)
    /\ SubSeq(err, Len(err) - Len(cause) + 1, Len(err)) = cause

\* C16: when the provider function consulted for the store's kind returns
\* an error, ConfigDir returns the empty path and an error identifiable as a
\* DirectoryLookupFailed sentinel naming the failed lookup and wrapping the
\* cause, for every kind and every provider function.
C16_LookupFailureTagged ==
    \A i \in FreshCalls :
        Consulted(i).err # NoErr =>
            /\ log[i].dir = EmptyPath
            /\ \E s \in LookupSentinels(TheKind) : Is(log[i].err, s)
            /\ Wraps(log[i].err, Consulted(i).err)

\* C17: Exists() returns true exactly when the file at the store's file path
\* is present, and false (without an error or a panic) when it is missing,
\* when the stat fails for another reason and when the store's directory
\* cannot be resolved.
C17_ExistsIffPresent ==
    \A i \in Calls("Exists") : log[i].exists <=> log[i].present

\* a regular file stands at p or above it, so that p cannot be a directory
Blocked(p) == \E q \in Prefixes(p) : IsFileAt(fsys, q)

\* the directories call i of EnsureDirs was asked for, in order
AskedDirs(i) ==
    [n \in 1..Len(log[i].subdirs) |->
        DirPathJoin(log[i].configDir.dir, log[i].subdirs[n])]

\* the positions of the subdirectories of call i that could not be created
FailedDirs(i) == { n \in 1..Len(log[i].subdirs) : Blocked(AskedDirs(i)[n]) }

\* C18: EnsureDirs(subdirs) tries to create every listed subdirectory under
\* the resolved config directory, also after an earlier one failed; the
\* returned error is nil iff all succeeded, and otherwise a combined error
\* with one entry for each segment that failed and for no other.
C18_EnsureDirsCollects ==
    \A i \in Calls("EnsureDirs") :
        IF log[i].configDir.err # NoErr
        THEN log[i].err = log[i].configDir.err /\ log[i].errs = <<>>
        ELSE /\ \A n \in DOMAIN AskedDirs(i) :
                    n \notin FailedDirs(i) => IsDirAt(fsys, AskedDirs(i)[n])
             /\ log[i].err = NoErr <=> FailedDirs(i) = {}
             /\ Len(log[i].errs) = Cardinality(FailedDirs(i))
             /\ \A n \in FailedDirs(i) :
                    \E e \in DOMAIN log[i].errs :
                        /\ log[i].errs[e].dir = AskedDirs(i)[n]
                        /\ Is(log[i].errs[e].chain, "ErrFailedCreatingDirectory")
             /\ \A e \in DOMAIN log[i].errs :
                    /\ \E n \in FailedDirs(i) : log[i].errs[e].dir = AskedDirs(i)[n]
                    /\ \A x \in DOMAIN log[i].errs[e].chain :
                           Is(log[i].err, log[i].errs[e].chain[x])

\* the config file stood where the first subdirectory was asked for: that
\* one failed, the one after it was created, and the error has one entry
C18_Witness ==
    /\ Len(log) = 1 /\ log[1].op = "EnsureDirs"
    /\ log[1].subdirs = <<"config.json", "cache">>
    /\ log[1].configDir.err = NoErr
    /\ FailedDirs(1) = {1}
    /\ IsDirAt(fsys, AskedDirs(1)[2])
    /\ Len(log[1].errs) = 1
    /\ Is(log[1].err, "ErrFailedCreatingDirectory")

\* a set has been built from args
Built == args # NoArgs

\* the kind list the set was asked for
AskedKinds == IF args.DirTypes = <<>> THEN DefaultDirTypes ELSE args.DirTypes

\* the providers supplied in the arguments
SuppliedProviders ==
    {args.DirsProvider, args.ConfigStoreArgs.DirsProvider} \ {NilProvider}

\* the kind an accessor stands for
AccessorKind ==
    CASE ret.op = "AppConfigStore" -> AppConfigDirType
      [] ret.op = "CLIConfigStore" -> CLIConfigDirType
      [] ret.op = "ProjectConfigStore" -> ProjectConfigDirType
      [] OTHER -> UnspecifiedConfigDirType

\* C19: NewConfigStores with kind list L (CLIConfig, ProjectConfig when
\* omitted) builds exactly one store per kind of L, bound to that kind, the
\* slug, the relative path and the DirsProvider supplied in the arguments
\* (the default one only when none is supplied); each accessor returns the
\* store of its kind if the kind is in L and nil otherwise.
C19_OneStorePerKind ==
    Built =>
        /\ DirTypes = AskedKinds
        /\ DOMAIN StoreMap = SeqRange(AskedKinds)
        /\ \A k \in DOMAIN StoreMap :
              /\ StoreMap[k].dirType = k
              /\ StoreMap[k].configSlug = args.ConfigStoreArgs.ConfigSlug
              /\ StoreMap[k].relFilepath = args.ConfigStoreArgs.RelFilepath
              /\ IF SuppliedProviders = {}
                 THEN StoreMap[k].dirsProvider = DefaultDirsProvider
                 ELSE StoreMap[k].dirsProvider \in SuppliedProviders
        /\ AccessorKind # UnspecifiedConfigDirType =>
              IF AccessorKind \in SeqRange(AskedKinds)
              THEN ret.store = StoreRef(StoreMap[AccessorKind])
              ELSE ret.store = NilStore

\* C20: once Save has opened the target file, the handle is closed on every
\* exit path, after a successful write and after a write error alike; a
\* failure of the close is logged and neither returned nor raised, so that
\* the result of Save is exactly the outcome of the write.
C20_HandleAlwaysClosed ==
    \A i \in Calls("Save") :
        log[i].opened =>
            /\ log[i].closed
            /\ ~log[i].panicked
            /\ log[i].err = log[i].writeErr
            /\ log[i].closeErr # NoErr => log[i].logged

\* the contributing kinds in the order of the set's own kind list
SetContribSeq == SelectSeq(DirTypes, IsContributing)

\* C21: the set's own ordered kind list defines the merge: whatever kind list
\* the load arguments carry, when no store failed and at least one
\* contributed, LoadRootConfig succeeds, the contributing stores are folded
\* in the order of the set's list (the first starts the accumulator, each
\* later one is the receiver of one Merge call), and so every contributing
\* store takes part in the result.
C21_SetListDefinesMerge ==
    (Loaded /\ Failed = {} /\ Contributing # {}) =>
        /\ ret.err = NoErr
        /\ Len(log) = Len(SetContribSeq) - 1
        /\ \A j \in 1..Len(log) :
              /\ log[j].dirType = SetContribSeq[j + 1]
              /\ log[j].arg = IF j = 1 THEN Contribution(SetContribSeq[1])
                              ELSE log[j - 1].returned
        /\ Len(log) = 0 => ret.prc = Ptr(Contribution(SetContribSeq[1]))

\* the file a ProjectConfig store for project directory d resolves to and
\* saves to: <d>/.<slug>/<file>
ProjectStoreFile(d) ==
    FilepathJoin(ConfigDir(ProjectConfigDirType, ConfigSlug,
                           [MovedDirsProvider EXCEPT !.ProjectDirFunc = DirOk(d)]).cd,
                 ConfigFile)

\* C22: ProjectConfigStoreExists(projectDir, slug, file) answers true exactly
\* when the config file of a ProjectConfig store for that project directory,
\* <projectDir>/.<slug>/<file>, exists.
C22_ProjectStoreFileExists ==
    ret.op = "ProjectConfigStoreExists" =>
        (ret.exists <=> ProjectStoreFile(ret.projectDir) \in DOMAIN fsys)

\* C27: over any sequence of ConfigDir, SetConfigDir, SetRelFilepath, Exists,
\* Load and Save calls on one store the cached file-system view is rooted at
\* the memoized directory, so that Exists and Load read the file GetFilepath
\* reports and Save writes: whenever GetFilepath succeeds, Exists answers
\* whether that file is there, and a successful Save is read back by Load.
C27_OneFileForAllCalls ==
    LET g == GetFilepath(TheStore)
    IN  /\ TheStore.fs.set => TheStore.fs.root = TheStore.configDir
        /\ g.err = NoErr =>
              /\ Exists(TheStore, fsys).exists <=> g.fp \in DOMAIN fsys
              /\ \A data \in ViewBytes :
                    LET s == Save(TheStore, fsys, data)
                    IN  s.err = NoErr =>
                          /\ IsFileAt(s.fsx, g.fp)
                          /\ Load(s.cs, s.fsx).err = NoErr
                          /\ Load(s.cs, s.fsx).data = data

\* C28: WithDirType(k) returns a new store whose DirType() is k and whose
\* ConfigDir() is the directory kind k resolves to, whether or not the
\* receiver had resolved or overridden its directory, and leaves the
\* receiver's kind, directory and relative path unchanged.
C28_WithDirTypeResolvesNewKind ==
    ret.op = "WithDirType" =>
        LET d == configStore_ConfigDir(ret.store)
            k == ConfigDir(ret.dirType, ret.store.configSlug, ret.store.dirsProvider)
        IN  /\ ret.store.dirType = ret.dirType
            /\ d.err = k.err
            /\ d.dir = k.cd
            /\ TheStore = ret.recv

\* C23: two-phase ordering of LoadRootConfig: by the time the merge phase
\* starts, and so before the first Merge call, the load/create step has
\* completed (as loaded, created, absent or failed) for every store of the
\* set; no Merge call precedes a store's load/create step.
C23_GatherBeforeMerge ==
    (pc \in {"merge", "mergeLoop"} \/ log # <<>>) =>
        /\ pending = {}
        /\ \A k \in DOMAIN StoreMap :
              outcome[k] \in {"loaded", "created", "absent"}

\* Merge has been called for a set of three stores, one of them absent
C23_Witness ==
    /\ Len(log) >= 1
    /\ Cardinality(DOMAIN StoreMap) = 3
    /\ outcome[ProjectConfigDirType] = "absent"
    /\ pending = {}

\* C24: ErrDirTypeNotAssignAfterMerge is unreachable: for every store set
\* built by NewConfigStores, every kind list of the load arguments and every
\* combination of contributing and absent stores, LoadRootConfig never
\* returns this error.
C24_DirTypeAlwaysAssigned ==
    ~Is(ret.err, "ErrDirTypeNotAssignAfterMerge")

\* a load whose kind list names one contributing kind twice went through the
\* merge loop and returned a value
C24_Witness ==
    /\ Loaded /\ ret.err = NoErr
    /\ args.DirTypes = <<CLIConfigDirType, CLIConfigDirType>>
    /\ Len(log) = 1
    /\ ~ret.prc.nil

\* store k is about to be visited and something is at its file path
FilePresent(k) == StorePath(k).err = NoErr /\ StorePath(k).fp \in DOMAIN fsys

\* C25: per-store state machine of LoadRootConfig: the visit of a store whose
\* file exists ends in loaded or failed and leaves the file system alone,
\* whatever the file's content deserializes and normalizes to; only the visit
\* of a non-project store whose file is missing creates with defaults, i.e.
\* writes a file.
C25_ExistingFileNeverWritten ==
    [][ \A k \in DOMAIN StoreMap :
            Visits(k) =>
                /\ FilePresent(k) =>
                      /\ outcome'[k] \in {"loaded", "failed"}
                      /\ fsys' = fsys
                /\ (outcome'[k] = "created" \/ fsys' # fsys) =>
                      (k # ProjectConfigDirType /\ FileMissing(k)) ]_vars

\* C26: SaveJSON of a value that cannot be serialized returns an error
\* without calling Save: no file and no directory is created and an existing
\* file keeps its content (the file system is left as it was), and the store
\* has not even resolved its directory.
C26_UnserializableNotSaved ==
    [][ (ops' = ops + 1 /\ ret'.op = "SaveJSON" /\ ret'.prc = Ptr(Chan)) =>
            /\ ret'.err # NoErr
            /\ fsys' = fsys
            /\ StoreMap' = StoreMap ]_vars

\* SaveJSON was called with a channel on a store whose file exists
C26_Witness ==
    /\ ret.op = "SaveJSON"
    /\ ret.prc = Ptr(Chan)
    /\ ret.err # NoErr
    /\ IsFileAt(fsys, StorePath(TheKind).fp)

\* C29: when the value's Normalize fails during create-with-defaults
\* (reached from InitProjectConfig on a project without a file, or from the
\* gather loop on a non-project store whose file is missing) nothing is
\* persisted: the file system is left as it was, no file or directory
\* created, and the Normalize error is what is reported: by
\* InitProjectConfig itself, and by LoadRootConfig as that store's entry of
\* the aggregate error.
C29_NormalizeFailurePersistsNothing ==
    /\ [][ Normalize(ZeroValue).err # NoErr =>
             /\ (/\ InitStep
                 /\ GetFilepath(NewProjectConfigStore(ConfigSlug, ConfigFile)).err = NoErr
                 /\ InitFilepath \notin DOMAIN fsys) =>
                    /\ fsys' = fsys
                    /\ ret'.err = Normalize(ZeroValue).err
             /\ \A k \in NonProjectStores :
                    (Visits(k) /\ FileMissing(k)) =>
                        /\ fsys' = fsys
                        /\ rcMap'[k].nil
                        /\ Len(errs') = Len(errs) + 1
                        /\ errs'[Len(errs')].chain =
                              NewErr(<<"ErrFailedToEnsureConfig">>,
                                     Normalize(ZeroValue).err)
                        /\ errs'[Len(errs')].filepath = StorePath(k).fp ]_vars
    /\ [] ( (Loaded /\ \E i \in 1..Len(errs) :
                          Is(errs[i].chain, "ErrInvalidConfig")) =>
               (ret.prc.nil /\ Is(ret.err, "ErrInvalidConfig")) )

\* a load in which the creation of the missing CLI file failed in Normalize:
\* the call failed with that error and the file is still missing
C29_Witness ==
    /\ Loaded
    /\ normalizeMode = "required"
    /\ outcome[CLIConfigDirType] = "failed"
    /\ FileMissing(CLIConfigDirType)
    /\ PathDir(StorePath(CLIConfigDirType).fp) \notin DOMAIN fsys
    /\ Is(ret.err, "ErrInvalidConfig")

\* what the visit of store k does, started in file system fsx
VisitOf(k, fsx) == gatherOne(StoreMap[k], fsx, k, args)

\* the error entries as a set: all that an aggregate error identifies as
ErrEntries(es) == { es[i] : i \in 1..Len(es) }

\* visiting j and then k ends with the same files, the same two values and
\* the same error entries as visiting k and then j
VisitsCommute(j, k) ==
    LET j1 == VisitOf(j, fsys)
        k2 == VisitOf(k, j1.fsx)
        k1 == VisitOf(k, fsys)
        j2 == VisitOf(j, k1.fsx)
    IN  /\ k2.fsx = j2.fsx
        /\ j1.rc = j2.rc
        /\ k1.rc = k2.rc
        /\ ErrEntries(j1.errs \o k2.errs) = ErrEntries(k1.errs \o j2.errs)

\* C30: gather-order independence: for a fixed store set, provider, kind
\* list and initial file system, the value or error LoadRootConfig returns
\* and the resulting files are the same for every iteration order over the
\* stores: at every point of the gather loop any two stores still to be
\* visited can be visited in either order with the same files, values and
\* error entries as result, and what is returned after the loop depends on
\* the gathered values and the set of error entries only.
C30_GatherOrderIndependent ==
    /\ pc = "gather" =>
          \A j \in pending, k \in pending : j # k => VisitsCommute(j, k)
    /\ (Loaded /\ errs # <<>>) =>
          /\ ret.prc.nil
          /\ ErrEntries(ret.err) =
                {"CombinedErrs"} \cup UNION { ErrEntries(e.chain) : e \in ErrEntries(errs) }

\* a load over three stores, two of which share one file that was missing,
\* has gathered all of them
C30_Witness ==
    /\ pc = "gather"
    /\ pending = {}
    /\ Cardinality(DOMAIN StoreMap) = 3
    /\ StorePath(AppConfigDirType).fp = StorePath(CLIConfigDirType).fp
    /\ outcome[AppConfigDirType] \in {"loaded", "created"}
    /\ outcome[CLIConfigDirType] \in {"loaded", "created"}
    /\ outcome[AppConfigDirType] # outcome[CLIConfigDirType]

====
